---- MODULE Spec2Model ----
(***************************************************************************)
(* A model of pdbsql's serialized query dispatcher                         *)
(* (src/src/include/server_query_dispatcher.hpp) and of its streaming      *)
(* virtual-table generators (src/src/include/pdb_tables.hpp).              *)
(***************************************************************************)
EXTENDS Integers, Sequences, FiniteSets, TLC

(***************************************************************************)
(* Bounds of the model.                                                    *)
(***************************************************************************)
\* Number of run() calls made over one behaviour.
MaxJobs == 3

\* The same, in the behaviours checked for liveness.
MaxFairJobs == 2

(***************************************************************************)
(* Threads.                                                                *)
(***************************************************************************)
\* Threads that call ServerQueryDispatcher::run().
Callers == {"c1", "c2"}

\* A dispatcher would be wrong with a pool of workers.
WorkerPool == {"w", "w2"}

\* The constructor starts exactly one std::thread running worker_thread().
Workers == {"w"}

\* The thread that runs ~ServerQueryDispatcher().
DtorThread == "d"

Free == "free"

NoJob == 0

Jobs == 1..MaxJobs

(***************************************************************************)
(* The SQL engine as the dispatcher sees it.  A statement is represented   *)
(* by what db_.exec does with it: it returns SQLITE_OK, it returns another *)
(* result code and leaves a message in last_error(), or an exception       *)
(* escapes execute_sql (for example std::bad_alloc while a row is copied). *)
(***************************************************************************)
SqlKinds == {"ok", "sqlerr", "throw"}

SQLITE_OK == 0

\* db_.exec(sql, callback, &ctx): the result code.
DbExec(k) == IF k = "ok" THEN SQLITE_OK ELSE SQLITE_OK + 1

\* db_.last_error(): the engine's message for the failed statement.
DbLastError(k) == IF k = "sqlerr" THEN "sql error" ELSE ""

\* A QueryResult as constructed at the top of execute_sql.
EmptyResult == [success |-> FALSE, error |-> ""]

\* A bug: the result code is not looked at.
execute_sql_unchecked(k) ==
    [threw |-> k = "throw", result |-> [EmptyResult EXCEPT !.success = TRUE]]

\* execute_sql: a fresh QueryResult per call, filled from rc.
execute_sql(k) ==
    LET rc == DbExec(k) IN
    [threw  |-> k = "throw",
     result |-> IF rc # SQLITE_OK
                THEN [EmptyResult EXCEPT !.success = FALSE, !.error = DbLastError(k)]
                ELSE [EmptyResult EXCEPT !.success = TRUE]]

(***************************************************************************)
(* std::promise / std::future shared state.                                *)
(***************************************************************************)
Pending == [state |-> "pending", success |-> FALSE, error |-> ""]

ValueState(r) == [state |-> "value", success |-> r.success, error |-> r.error]

ExceptionState(what) == [state |-> "exception", success |-> FALSE, error |-> what]

\* A bug: the handler has no try/catch, the exception ends the thread.
WorkerOutcomeNoCatch(k) ==
    LET r == execute_sql(k) IN
    IF r.threw THEN [set |-> Pending, next |-> "crashed"]
    ELSE [set |-> ValueState(r.result), next |-> "lock"]

\* The try/catch of worker_thread: what is stored in the promise, and where
\* the worker goes next.
WorkerOutcome(k) ==
    LET r == execute_sql(k) IN
    IF r.threw THEN [set |-> ExceptionState("execute_sql threw"), next |-> "lock"]
    ELSE [set |-> ValueState(r.result), next |-> "lock"]

(***************************************************************************)
(* std::queue<Job>.                                                        *)
(***************************************************************************)
PushFront(q, j) == <<j>> \o q

\* A mistaken push: a queue that holds a job already takes no other.
PushBounded(q, j) == IF Len(q) >= 1 THEN q ELSE Append(q, j)

\* queue_.push(job)
Push(q, j) == Append(q, j)

\* queue_.front()
Front(q) == Head(q)

PopNothing(q) == q

\* queue_.pop()
Pop(q) == Tail(q)

InQueue(q, j) == \E i \in 1..Len(q) : q[i] = j

QueueSet(q) == {q[i] : i \in 1..Len(q)}

(***************************************************************************)
(* State.                                                                  *)
(***************************************************************************)
VARIABLES
    queue_,     \* std::queue<Job> queue_ (job ids, front first)
    stop_,      \* bool stop_
    mutex_,     \* std::mutex mutex_: the holder, or Free
    pc,         \* per caller: its position in run()
    cjob,       \* per caller: the job of its current run()
    wpc,        \* per worker: its position in worker_thread()
    wjob,       \* per worker: the Job moved out of the queue
    dpc,        \* position of the destructor
    njobs,      \* promises created so far
    sql,        \* per job: the statement (its kind)
    promise,    \* per job: the promise's shared state
    ret,        \* per job: what future.get() gave the caller
    inDb,       \* <<thread, job>> pairs inside db_.exec
    execCount,  \* per job: times execute_sql was entered for it (saturating)
    setCount,   \* per job: times an outcome was stored (saturating)
    pushed,     \* history: jobs whose enqueue step has completed
    late,       \* history: jobs pushed when stop_ was already set
    atStop,     \* history: jobs in the queue when stop_ was set
    enqBefore,  \* history, per job: jobs already pushed when its run() began
    dbThreads   \* history: threads that have been inside db_.exec

dvars == <<queue_, stop_, mutex_, pc, cjob, wpc, wjob, dpc, njobs, sql, promise,
           ret, inDb, execCount, setCount, pushed, late, atStop, enqBefore,
           dbThreads>>

\* The virtual-table cursor over the PDB (the generators further down).
VARIABLES
    pdb,        \* PdbSession: whether it is open, and what DIA holds
    table,      \* the table the cursor was opened on
    phase,      \* position of the query: idle, scan, scanned, filter, filtered
    iter,       \* GeneratorRowIterator: gen_, whether gen_ is set, eof_
    scanned,    \* history: <<rowid, row>> of each row of the full scan
    filt,       \* the equality constraint handed to the filter: column, value
    filtered,   \* history: <<rowid, row>> of each row of the filtered scan
    cur,        \* the open cursors on the table, each with its iterator
    call        \* history: the last call made on a cursor and what it gave

gvars == <<pdb, table, phase, iter, scanned, filt, filtered, cur, call>>

VARIABLES
    defs,       \* TableRegistry: per table, def.columns and def.filters
    registered  \* xsql::Database: the modules registered, in order

VARIABLES
    auth_token,   \* run_http_mode: the --token given, "" for none
    query_mutex,  \* std::mutex query_mutex: the holder, or Free
    hpc,          \* per handler thread: its position in the route's handler
    hreq,         \* per handler thread: the request it handles
    hres,         \* per handler thread: the response, and what the handler did
    svr           \* httplib::Server: running, stopping (stop scheduled), stopped

hvars == <<auth_token, query_mutex, hpc, hreq, hres, svr>>

VARIABLES
    sqltext,    \* the SQL text given to execute_sql: its statements
    qresult     \* the QueryResult execute_sql built for it, once it has run

evars == <<sqltext, qresult>>

\* The sessions of the process (PdbSession), and for each the last of open()
\* and close() called on it with what it returned.
VARIABLES
    sess,
    lastcall

pvars == <<sess, lastcall>>

\* The section contributions DIA enumerates, whether build() has run, and
\* the sections_ it left.
VARIABLES
    contribs,
    built,
    sections_

cvars == <<contribs, built, sections_>>

\* A TablePrinter, what print() wrote, whether widths was indexed outside
\* its bounds, and whether the process faulted on it.
VARIABLES
    printer,
    out,
    oob,
    faulted

tvars == <<printer, out, oob, faulted>>

\* The interactive loop: which of the two loops runs, the statement buffer,
\* whether the loop still runs, and what the last pass through it did.
VARIABLES
    mode,
    stmt,
    running,
    event

ivars == <<mode, stmt, running, event>>

\* The state of the command line's own objects and of the sections table.
uvars == <<pvars, cvars, tvars, ivars>>

svars == <<defs, registered, hvars, evars, uvars>>

vars == <<dvars, gvars, svars>>

Sat(n) == IF n >= 2 THEN 2 ELSE n + 1

DInit ==
    /\ queue_ = <<>>
    /\ stop_ = FALSE
    /\ mutex_ = Free
    /\ pc = [t \in Callers |-> "idle"]
    /\ cjob = [t \in Callers |-> NoJob]
    /\ wpc = [w \in Workers |-> "lock"]
    /\ wjob = [w \in Workers |-> NoJob]
    /\ dpc = "alive"
    /\ njobs = 0
    /\ sql = [j \in Jobs |-> "none"]
    /\ promise = [j \in Jobs |-> Pending]
    /\ ret = [j \in Jobs |-> "none"]
    /\ inDb = {}
    /\ execCount = [j \in Jobs |-> 0]
    /\ setCount = [j \in Jobs |-> 0]
    /\ pushed = {}
    /\ late = {}
    /\ atStop = {}
    /\ enqBefore = [j \in Jobs |-> {}]
    /\ dbThreads = {}

(***************************************************************************)
(* cv_.notify_one(): one thread blocked in cv_.wait, if any, is unblocked  *)
(* and goes on to re-acquire the mutex; with no waiter nothing happens.    *)
(***************************************************************************)
NotifyNobody(wp) == {wp}

NotifyOne(wp) ==
    IF \E w \in DOMAIN wp : wp[w] = "waiting"
    THEN {[wp EXCEPT ![w] = "lock"] : w \in {x \in DOMAIN wp : wp[x] = "waiting"}}
    ELSE {wp}

(***************************************************************************)
(* run(sql)                                                                *)
(***************************************************************************)
\* std::promise promise; auto future = promise.get_future();
\* std::lock_guard<std::mutex> lock(mutex_);
\* The enqueue step of a call begins when the call gets the mutex.  At most
\* limit calls are made.
RunLock(t, limit) ==
    /\ pc[t] = "idle"
    /\ dpc # "destroyed"
    /\ njobs < limit
    /\ mutex_ = Free
    /\ mutex_' = t
    /\ njobs' = njobs + 1
    /\ cjob' = [cjob EXCEPT ![t] = njobs + 1]
    /\ enqBefore' = [enqBefore EXCEPT ![njobs + 1] = pushed]
    /\ pc' = [pc EXCEPT ![t] = "push"]
    /\ UNCHANGED <<gvars, svars>>
    /\ UNCHANGED <<queue_, stop_, wpc, wjob, dpc, sql, promise, ret, inDb,
                   execCount, setCount, pushed, late, atStop, dbThreads>>

\* queue_.push({sql, std::move(promise)}); and the end of the lock's scope
RunPush(t) ==
    /\ pc[t] = "push"
    /\ dpc # "destroyed"
    /\ queue_' = Push(queue_, cjob[t])
    /\ mutex_' = Free
    /\ pushed' = pushed \cup {cjob[t]}
    /\ late' = IF stop_ THEN late \cup {cjob[t]} ELSE late
    /\ pc' = [pc EXCEPT ![t] = "notify"]
    /\ UNCHANGED <<gvars, svars>>
    /\ UNCHANGED <<stop_, cjob, wpc, wjob, dpc, njobs, sql, promise, ret, inDb,
                   execCount, setCount, atStop, enqBefore, dbThreads>>

\* cv_.notify_one();
RunNotify(t) ==
    /\ pc[t] = "notify"
    /\ dpc # "destroyed"
    /\ wpc' \in NotifyOne(wpc)
    /\ pc' = [pc EXCEPT ![t] = "get"]
    /\ UNCHANGED <<gvars, svars>>
    /\ UNCHANGED <<queue_, stop_, mutex_, cjob, wjob, dpc, njobs, sql, promise,
                   ret, inDb, execCount, setCount, pushed, late, atStop, enqBefore, dbThreads>>

\* return future.get(); blocks until the shared state is ready, then returns
\* the QueryResult or rethrows the stored exception.
RunGet(t) ==
    /\ pc[t] = "get"
    /\ promise[cjob[t]].state # "pending"
    /\ ret' = [ret EXCEPT ![cjob[t]] =
                  IF promise[cjob[t]].state = "value" THEN "result" ELSE "thrown"]
    /\ pc' = [pc EXCEPT ![t] = "idle"]
    /\ cjob' = [cjob EXCEPT ![t] = NoJob]
    /\ UNCHANGED <<gvars, svars>>
    /\ UNCHANGED <<queue_, stop_, mutex_, wpc, wjob, dpc, njobs, sql, promise,
                   inDb, execCount, setCount, pushed, late, atStop, enqBefore, dbThreads>>

\* A caller still inside run() before future.get() when the members are
\* destroyed uses a destroyed mutex, queue or condition variable: undefined
\* behaviour, after which nothing is known about that thread.
RunAfterDestroy(t) ==
    /\ pc[t] \in {"push", "notify"}
    /\ dpc = "destroyed"
    /\ pc' = [pc EXCEPT ![t] = "undefined"]
    /\ UNCHANGED <<gvars, svars>>
    /\ UNCHANGED <<queue_, stop_, mutex_, cjob, wpc, wjob, dpc, njobs, sql,
                   promise, ret, inDb, execCount, setCount, pushed, late, atStop,
                   enqBefore, dbThreads>>

(***************************************************************************)
(* worker_thread()                                                         *)
(***************************************************************************)
\* std::unique_lock<std::mutex> lock(mutex_); also the re-acquisition of the
\* mutex when cv_.wait wakes up.
WorkerLock(w) ==
    /\ wpc[w] = "lock"
    /\ mutex_ = Free
    /\ mutex_' = w
    /\ wpc' = [wpc EXCEPT ![w] = "check"]
    /\ UNCHANGED <<gvars, svars>>
    /\ UNCHANGED <<queue_, stop_, pc, cjob, wjob, dpc, njobs, sql, promise, ret,
                   inDb, execCount, setCount, pushed, late, atStop, enqBefore, dbThreads>>

\* cv_.wait(lock, pred) with pred false: the mutex is released and the thread
\* blocks, atomically.
WorkerWait(w) ==
    /\ wpc[w] = "check"
    /\ ~(stop_ \/ queue_ # <<>>)
    /\ mutex_' = Free
    /\ wpc' = [wpc EXCEPT ![w] = "waiting"]
    /\ UNCHANGED <<gvars, svars>>
    /\ UNCHANGED <<queue_, stop_, pc, cjob, wjob, dpc, njobs, sql, promise, ret,
                   inDb, execCount, setCount, pushed, late, atStop, enqBefore, dbThreads>>

\* A condition variable may wake without a notification.
WorkerSpuriousWake(w) ==
    /\ wpc[w] = "waiting"
    /\ wpc' = [wpc EXCEPT ![w] = "lock"]
    /\ UNCHANGED <<gvars, svars>>
    /\ UNCHANGED <<queue_, stop_, mutex_, pc, cjob, wjob, dpc, njobs, sql,
                   promise, ret, inDb, execCount, setCount, pushed, late, atStop,
                   enqBefore, dbThreads>>

\* A bug: the loop ends as soon as stop_ is seen.
ExitConditionStopOnly(stop, q) == stop

\* if (stop_ && queue_.empty()) break;
ExitCondition(stop, q) == stop /\ q = <<>>

WorkerExit(w) ==
    /\ wpc[w] = "check"
    /\ stop_ \/ queue_ # <<>>
    /\ ExitCondition(stop_, queue_)
    /\ mutex_' = Free
    /\ wpc' = [wpc EXCEPT ![w] = "exited"]
    /\ UNCHANGED <<gvars, svars>>
    /\ UNCHANGED <<queue_, stop_, pc, cjob, wjob, dpc, njobs, sql, promise, ret,
                   inDb, execCount, setCount, pushed, late, atStop, enqBefore, dbThreads>>

\* A mistaken worker: the lock's scope reaches over the execution, and the
\* mutex is still held when execute_sql is entered.
WorkerPopHoldingLock(w, k) ==
    /\ wpc[w] = "check"
    /\ ~ExitCondition(stop_, queue_)
    /\ queue_ # <<>>
    /\ wjob' = [wjob EXCEPT ![w] = Front(queue_)]
    /\ queue_' = Pop(queue_)
    /\ inDb' = inDb \cup {<<w, Front(queue_)>>}
    /\ execCount' = [execCount EXCEPT ![Front(queue_)] = Sat(@)]
    /\ sql' = [sql EXCEPT ![Front(queue_)] = k]
    /\ dbThreads' = dbThreads \cup {w}
    /\ wpc' = [wpc EXCEPT ![w] = "exec"]
    /\ UNCHANGED <<gvars, svars>>
    /\ UNCHANGED <<stop_, mutex_, pc, cjob, dpc, njobs, promise, ret, setCount,
                   pushed, late, atStop, enqBefore>>

\* job = std::move(queue_.front()); queue_.pop(); the lock's scope ends and
\* execute_sql(job.sql) is entered.
WorkerPop(w, k) ==
    /\ wpc[w] = "check"
    /\ stop_ \/ queue_ # <<>>
    /\ ~ExitCondition(stop_, queue_)
    /\ queue_ # <<>>
    /\ wjob' = [wjob EXCEPT ![w] = Front(queue_)]
    /\ queue_' = Pop(queue_)
    /\ mutex_' = Free
    /\ inDb' = inDb \cup {<<w, Front(queue_)>>}
    /\ execCount' = [execCount EXCEPT ![Front(queue_)] = Sat(@)]
    /\ sql' = [sql EXCEPT ![Front(queue_)] = k]
    /\ dbThreads' = dbThreads \cup {w}
    /\ wpc' = [wpc EXCEPT ![w] = "exec"]
    /\ UNCHANGED <<gvars, svars>>
    /\ UNCHANGED <<stop_, pc, cjob, dpc, njobs, promise, ret, setCount,
                   pushed, late, atStop, enqBefore>>

\* execute_sql returns or throws; job.promise.set_value / set_exception.
\* Storing into a promise that already holds an outcome throws
\* std::future_error, which the handlers swallow.
WorkerFinish(w) ==
    /\ wpc[w] = "exec"
    /\ LET j == wjob[w]
           o == WorkerOutcome(sql[j])
       IN /\ inDb' = inDb \ {<<w, j>>}
          /\ IF promise[j].state = "pending" /\ o.set.state # "pending"
             THEN /\ promise' = [promise EXCEPT ![j] = o.set]
                  /\ setCount' = [setCount EXCEPT ![j] = Sat(@)]
             ELSE UNCHANGED <<promise, setCount>>
          /\ wpc' = [wpc EXCEPT ![w] = o.next]
    /\ wjob' = [wjob EXCEPT ![w] = NoJob]
    /\ UNCHANGED <<gvars, svars>>
    /\ UNCHANGED <<queue_, stop_, mutex_, pc, cjob, dpc, njobs, sql, ret,
                   execCount, pushed, late, atStop, enqBefore, dbThreads>>

(***************************************************************************)
(* ~ServerQueryDispatcher()                                                *)
(***************************************************************************)
\* std::lock_guard<std::mutex> lock(mutex_);
DtorLock ==
    /\ dpc = "alive"
    /\ mutex_ = Free
    /\ mutex_' = DtorThread
    /\ dpc' = "set"
    /\ UNCHANGED <<gvars, svars>>
    /\ UNCHANGED <<queue_, stop_, pc, cjob, wpc, wjob, njobs, sql, promise, ret,
                   inDb, execCount, setCount, pushed, late, atStop, enqBefore, dbThreads>>

\* stop_ = true; and the end of the lock's scope
DtorStop ==
    /\ dpc = "set"
    /\ stop_' = TRUE
    /\ mutex_' = Free
    /\ atStop' = QueueSet(queue_)
    /\ dpc' = "notify"
    /\ UNCHANGED <<gvars, svars>>
    /\ UNCHANGED <<queue_, pc, cjob, wpc, wjob, njobs, sql, promise, ret, inDb,
                   execCount, setCount, pushed, late, enqBefore, dbThreads>>

\* cv_.notify_one();
DtorNotify ==
    /\ dpc = "notify"
    /\ wpc' \in NotifyOne(wpc)
    /\ dpc' = "join"
    /\ UNCHANGED <<gvars, svars>>
    /\ UNCHANGED <<queue_, stop_, mutex_, pc, cjob, wjob, njobs, sql, promise,
                   ret, inDb, execCount, setCount, pushed, late, atStop, enqBefore, dbThreads>>

\* worker_.join() returns once the worker has left worker_thread(); then the
\* members are destroyed.  A Job still in queue_ is destroyed with its promise
\* unfulfilled, which stores std::future_error(broken_promise) in its state.
DtorJoin ==
    /\ dpc = "join"
    /\ \A w \in Workers : wpc[w] = "exited"
    /\ dpc' = "destroyed"
    /\ promise' = [j \in Jobs |->
                     IF InQueue(queue_, j) /\ promise[j].state = "pending"
                     THEN ExceptionState("broken promise") ELSE promise[j]]
    /\ setCount' = [j \in Jobs |->
                     IF InQueue(queue_, j) /\ promise[j].state = "pending"
                     THEN Sat(setCount[j]) ELSE setCount[j]]
    /\ queue_' = <<>>
    /\ UNCHANGED <<gvars, svars>>
    /\ UNCHANGED <<stop_, mutex_, pc, cjob, wpc, wjob, njobs, sql, ret, inDb,
                   execCount, pushed, late, atStop, enqBefore, dbThreads>>

(***************************************************************************)
(* The PDB behind the virtual tables (pdb_session.hpp, pdb_tables.hpp).    *)
(*                                                                         *)
(* DIA holds the records of the PDB.  A record has a tag, the record whose *)
(* findChildren/findFile/findLines returns it (parent, 0 for the global    *)
(* scope), a name and, for SymTagData, a data kind.  The id of a record is *)
(* its position.  Source files and line numbers are records too, with the  *)
(* tags SourceFile and LineNumber, but they are no symbols: symbolById     *)
(* does not find them.  Section contributions are kept apart, as the       *)
(* section number of each.                                                 *)
(***************************************************************************)
\* Records in the PDB.
MaxSyms == 4

\* Section contributions in the PDB.
MaxContribs == 3

\* Section numbers run from 1 to MaxSections.
MaxSections == 2

Names == {"a", "b"}

\* Name of a record that is not a child of the global scope.
InnerName == "m"

\* nullptr as the name given to findChildren: any name.
AnyName == ""

SymTags ==
    {"SymTagCompiland", "SymTagFunction", "SymTagPublicSymbol", "SymTagData",
     "SymTagUDT", "SymTagEnum", "SymTagTypedef", "SymTagThunk", "SymTagLabel",
     "SymTagBaseClass"}

\* Tags the global scope's findChildren returns.
GlobalTags == SymTags \ {"SymTagBaseClass"}

\* The tags under which findChildren/findFile/findLines return a record.
ScopeTags(tag) ==
    CASE tag = "SymTagData" -> {"SymTagFunction", "SymTagUDT", "SymTagEnum"}
      [] tag = "SymTagBaseClass" -> {"SymTagUDT"}
      [] tag = "SourceFile" -> {"SymTagCompiland"}
      [] tag = "LineNumber" -> {"SourceFile"}
      [] OTHER -> {}

\* get_dataKind of a SymTagData child of the scope: the global scope holds
\* globals and constants, a function its locals and parameters, a UDT its
\* members, an enum its enumerators (constants).
KindsIn(scope) ==
    CASE scope = "global" -> {"DataIsGlobal", "DataIsConstant"}
      [] scope = "SymTagFunction" -> {"DataIsLocal", "DataIsParam"}
      [] scope = "SymTagUDT" -> {"DataIsMember"}
      [] scope = "SymTagEnum" -> {"DataIsConstant"}
      [] OTHER -> {}

NoKind == "none"

\* The 17 tables.
SymbolTables ==
    {"functions", "publics", "data", "udts", "enums", "typedefs", "thunks",
     "labels"}

Tables ==
    SymbolTables \cup
    {"compilands", "source_files", "line_numbers", "sections", "udt_members",
     "enum_values", "base_classes", "locals", "parameters"}

\* The tag a symbol table enumerates (define_*_table).
TableTag(t) ==
    CASE t = "functions" -> "SymTagFunction"
      [] t = "publics" -> "SymTagPublicSymbol"
      [] t = "data" -> "SymTagData"
      [] t = "udts" -> "SymTagUDT"
      [] t = "enums" -> "SymTagEnum"
      [] t = "typedefs" -> "SymTagTypedef"
      [] t = "thunks" -> "SymTagThunk"
      [] t = "labels" -> "SymTagLabel"
      [] t = "compilands" -> "SymTagCompiland"
      [] t \in {"udt_members", "base_classes"} -> "SymTagUDT"
      [] t = "enum_values" -> "SymTagEnum"
      [] t \in {"locals", "parameters"} -> "SymTagFunction"
      [] t \in {"source_files", "line_numbers"} -> "SymTagCompiland"
      [] OTHER -> "SymTagNull"

\* The tags of the records a PDB holds when table t is queried: those the
\* table's generators ask DIA for, and SymTagData, which lives in the
\* scopes of functions, UDTs and enums as well (only the data table asks
\* the global scope for it).
PdbTags(t) ==
    CASE t = "data" -> {"SymTagData", "SymTagEnum"}
      [] t \in {"source_files", "compilands"} -> {"SymTagCompiland", "SourceFile"}
      [] t = "line_numbers" -> {"SymTagCompiland", "SourceFile", "LineNumber"}
      [] t = "base_classes" -> {"SymTagUDT", "SymTagBaseClass"}
      [] t = "sections" -> {}
      [] OTHER -> {TableTag(t), "SymTagData"}

\* The records that may follow the records s in a PDB.
RecordsAfter(t, s) ==
    {[tag |-> tg, parent |-> 0, name |-> nm, kind |-> NoKind] :
        tg \in (PdbTags(t) \cap GlobalTags) \ {"SymTagData"}, nm \in Names}
    \cup
    {[tag |-> "SymTagData", parent |-> 0, name |-> nm, kind |-> k] :
        nm \in Names,
        k \in IF TableTag(t) = "SymTagData" THEN KindsIn("global") ELSE {}}
    \cup
    UNION {
        {[tag |-> "SymTagData", parent |-> p, name |-> InnerName, kind |-> k] :
            k \in IF /\ "SymTagData" \in PdbTags(t)
                     /\ s[p].tag \in ScopeTags("SymTagData")
                  THEN KindsIn(s[p].tag) ELSE {}}
        \cup
        {[tag |-> tg, parent |-> p, name |-> InnerName, kind |-> NoKind] :
            tg \in {x \in PdbTags(t) \ {"SymTagData"} : s[p].tag \in ScopeTags(x)}}
        : p \in 1..Len(s)}

RECURSIVE PdbsOfLen(_, _)
PdbsOfLen(t, n) ==
    IF n = 0 THEN {<<>>}
    ELSE UNION {{Append(s, r) : r \in RecordsAfter(t, s)} :
                   s \in PdbsOfLen(t, n - 1)}

RECURSIVE ContribsOfLen(_)
ContribsOfLen(n) ==
    IF n = 0 THEN {<<>>}
    ELSE {Append(s, c) : s \in ContribsOfLen(n - 1), c \in 1..MaxSections}

\* A session that was never opened, or an open one on a PDB for table t.
\* fails: DIA returns a failure from findChildren, findFile and
\* getEnumTables, and leaves the result null.
ClosedPdb == [open |-> FALSE, fails |-> FALSE, syms |-> <<>>, contribs |-> <<>>]

PdbsUpTo(t, n, m) ==
    {ClosedPdb}
    \cup
    {[open |-> TRUE, fails |-> FALSE, syms |-> s, contribs |-> <<>>] :
        s \in UNION {PdbsOfLen(t, k) : k \in 0..n}}
    \cup
    {[open |-> TRUE, fails |-> FALSE, syms |-> <<>>, contribs |-> c] :
        c \in IF t = "sections"
              THEN UNION {ContribsOfLen(k) : k \in 1..m} ELSE {}}

Pdbs(t) == PdbsUpTo(t, MaxSyms, MaxContribs)

\* Open sessions on which DIA fails.
FailingPdbs(t) ==
    {[open |-> TRUE, fails |-> TRUE, syms |-> s, contribs |-> <<>>] :
        s \in PdbsOfLen(t, 0) \cup PdbsOfLen(t, 1)}

(***************************************************************************)
(* DIA and PdbSession                                                      *)
(***************************************************************************)
\* An enumerator (IDiaEnumSymbols, IDiaEnumSourceFiles, IDiaEnumLineNumbers)
\* or a null CComPtr: what is left to fetch, first in front.
NullEnum == [null |-> TRUE, rest |-> <<>>]

EnumOf(s) == [null |-> FALSE, rest |-> s]

IdSeq == [i \in 1..Len(pdb.syms) |-> i]

\* The name of a record whose get_name fails.
Unnamed == "<get_name fails>"

\* What is left in the name field of the row: get_name into a SafeBSTR and
\* name.str() when it succeeds, the empty std::string the field was
\* constructed with when it fails (extract_symbol, safe_symbol_name).
SymName(i) == IF pdb.syms[i].name = Unnamed THEN "" ELSE pdb.syms[i].name

\* The PDB with get_name failing on the records of S.
Unname(p, S) ==
    [p EXCEPT !.syms = [i \in 1..Len(p.syms) |->
                           IF i \in S THEN [p.syms[i] EXCEPT !.name = Unnamed]
                           ELSE p.syms[i]]]

\* A source that supplies an enumerator whatever happens.
findChildren_never_fails(parent, tag, name) ==
    EnumOf(SelectSeq(IdSeq,
        LAMBDA i : /\ pdb.syms[i].parent = parent
                   /\ pdb.syms[i].tag = tag
                   /\ (name = AnyName \/ pdb.syms[i].name = name)))

\* IDiaSymbol::findChildren(tag, name, flags, &result) on the record parent
findChildren(parent, tag, name) ==
    IF pdb.fails THEN NullEnum
    ELSE EnumOf(SelectSeq(IdSeq,
        LAMBDA i : /\ pdb.syms[i].parent = parent
                   /\ pdb.syms[i].tag = tag
                   /\ (name = AnyName \/ pdb.syms[i].name = name)))

\* PdbSession::enum_symbols: the children of global_, null without global_
enum_symbols(tag) ==
    IF pdb.open THEN findChildren(0, tag, AnyName) ELSE NullEnum

\* PdbSession::find_symbols: the children of global_ of that name
find_symbols(name, tag) ==
    IF pdb.open THEN findChildren(0, tag, name) ELSE NullEnum

\* IDiaSession::symbolById: the symbol, or 0 for none
symbolById(id) ==
    IF id \in 1..Len(pdb.syms) /\ pdb.syms[id].tag \in SymTags THEN id ELSE 0

\* IDiaSession::findFile(compiland, ...): with no compiland every file
findFile(compiland) ==
    IF pdb.fails THEN NullEnum
    ELSE IF compiland = 0
    THEN EnumOf(SelectSeq(IdSeq, LAMBDA i : pdb.syms[i].tag = "SourceFile"))
    ELSE findChildren(compiland, "SourceFile", AnyName)

\* IDiaSession::findFileById: the file, or 0 for none
findFileById(id) ==
    IF id \in 1..Len(pdb.syms) /\ pdb.syms[id].tag = "SourceFile" THEN id ELSE 0

\* IDiaSession::findLines(compiland, file, &lines)
findLines(compiland, file) == findChildren(file, "LineNumber", AnyName)

(***************************************************************************)
(* Rows and generators                                                     *)
(***************************************************************************)
\* A row (CachedSymbol, CachedMember, ...): its id and name, and the id and
\* name of the symbol it was found under (parent_id, enum_id, func_id,
\* derived_id, compiland_id; 0 and "" where the row has none).
Row(id, name, owner_id, owner_name) ==
    [id |-> id, name |-> name, owner_id |-> owner_id, owner_name |-> owner_name]

NoRow == Row(0, "", 0, "")

\* extract_symbol, extract_compiland, extract_source_file
extract_symbol(s) == Row(s, SymName(s), 0, "")

\* No want_kind_: the generator takes every child.
AnyKind == "any"

\* A generator as constructed: rowid_ = -1, nothing started.
NewGen(cls, tag, child, want_kind, id, name, accept) ==
    [cls |-> cls, tag |-> tag, child |-> child, want_kind |-> want_kind,
     id |-> id, name |-> name, accept |-> accept,
     started |-> FALSE, emitted |-> FALSE,
     outer |-> NullEnum, cur_id |-> 0, cur_name |-> "",
     files |-> NullEnum, inner |-> NullEnum,
     sections |-> <<>>, idx |-> 0,
     rowid |-> -1, current |-> NoRow]

NoGen == NewGen("none", "SymTagNull", "SymTagNull", AnyKind, 0, "", FALSE)

\* What next() leaves and returns.
Ret(g, r) == [g |-> g, ret |-> r]

\* A mistaken rowid step: the counter is left alone.
SameRowid(r) == r

\* ++rowid_
NextRowid(r) == r + 1

\* The row is taken: current_ = ...; ++rowid_; return true;
Emit(g, row) ==
    Ret([g EXCEPT !.current = row, !.rowid = NextRowid(@)], TRUE)

\* The fetch shared by the flat generators: symbols_->Next(1, &symbol,
\* &fetched), then current_ = extract_...(symbol); ++rowid_; return true;
FetchOuter(g) ==
    IF g.outer.null THEN Ret(g, FALSE)
    ELSE IF g.outer.rest = <<>> THEN Ret(g, FALSE)
    ELSE Emit([g EXCEPT !.outer.rest = Tail(@)],
              extract_symbol(Head(g.outer.rest)))

\* SymbolGenerator::next
SymbolGenerator_next(g) ==
    FetchOuter(IF g.started THEN g
               ELSE [g EXCEPT !.started = TRUE, !.outer = enum_symbols(g.tag)])

\* CompilandGenerator::next
CompilandGenerator_next(g) ==
    FetchOuter(IF g.started THEN g
               ELSE [g EXCEPT !.started = TRUE,
                              !.outer = enum_symbols("SymTagCompiland")])

\* SourceFileGenerator::next
SourceFileGenerator_next(g) ==
    IF ~g.started /\ ~pdb.open THEN Ret([g EXCEPT !.started = TRUE], FALSE)
    ELSE FetchOuter(IF g.started THEN g
                    ELSE [g EXCEPT !.started = TRUE, !.outer = findFile(0)])

\* SymbolByNameGenerator::next
SymbolByNameGenerator_next(g) ==
    FetchOuter(IF g.started THEN g
               ELSE [g EXCEPT !.started = TRUE,
                              !.outer = find_symbols(g.name, g.tag)])

\* CompilandByNameGenerator::next
CompilandByNameGenerator_next(g) ==
    FetchOuter(IF g.started THEN g
               ELSE [g EXCEPT !.started = TRUE,
                              !.outer = find_symbols(g.name, "SymTagCompiland")])

\* The accept lambda of the data table's id filter.
DataAccept(s) ==
    /\ s # 0
    /\ pdb.syms[s].kind \in {"DataIsFileStatic", "DataIsGlobal", "DataIsConstant"}

\* A mistaken lookup: the symbol of the id is taken whatever its tag.
SymbolByIdGenerator_next_any_tag(g) ==
    IF g.emitted THEN Ret(g, FALSE)
    ELSE LET g1 == [g EXCEPT !.emitted = TRUE]
             symbol == symbolById(g.id)
         IN  IF ~pdb.open \/ symbol = 0 THEN Ret(g1, FALSE)
             ELSE Ret([g1 EXCEPT !.current = extract_symbol(symbol),
                                 !.rowid = 0], TRUE)

\* SymbolByIdGenerator::next
SymbolByIdGenerator_next(g) ==
    IF g.emitted THEN Ret(g, FALSE)
    ELSE LET g1 == [g EXCEPT !.emitted = TRUE]
             symbol == symbolById(g.id)
         IN  IF ~pdb.open THEN Ret(g1, FALSE)
             ELSE IF symbol = 0 THEN Ret(g1, FALSE)
             ELSE IF pdb.syms[symbol].tag # g.tag THEN Ret(g1, FALSE)
             ELSE IF g.accept /\ ~DataAccept(symbol) THEN Ret(g1, FALSE)
             ELSE Ret([g1 EXCEPT !.current = extract_symbol(symbol),
                                 !.rowid = 0], TRUE)

\* CompilandByIdGenerator::next
CompilandByIdGenerator_next(g) ==
    IF g.emitted THEN Ret(g, FALSE)
    ELSE LET g1 == [g EXCEPT !.emitted = TRUE]
             symbol == symbolById(g.id)
         IN  IF ~pdb.open THEN Ret(g1, FALSE)
             ELSE IF symbol = 0 THEN Ret(g1, FALSE)
             ELSE IF pdb.syms[symbol].tag # "SymTagCompiland" THEN Ret(g1, FALSE)
             ELSE Ret([g1 EXCEPT !.current = extract_symbol(symbol),
                                 !.rowid = 0], TRUE)

\* SourceFileByIdGenerator::next
SourceFileByIdGenerator_next(g) ==
    IF g.emitted THEN Ret(g, FALSE)
    ELSE LET g1 == [g EXCEPT !.emitted = TRUE]
             file == findFileById(g.id)
         IN  IF ~pdb.open THEN Ret(g1, FALSE)
             ELSE IF file = 0 THEN Ret(g1, FALSE)
             ELSE Ret([g1 EXCEPT !.current = extract_symbol(file),
                                 !.rowid = 0], TRUE)

\* advance_udt, advance_enum, advance_func: release the current outer
\* symbol and its children, take the next outer symbol and ask for its
\* children.
advance_outer(g) ==
    LET g0 == [g EXCEPT !.cur_id = 0, !.cur_name = "", !.inner = NullEnum]
    IN  IF g0.outer.rest = <<>> THEN Ret(g0, FALSE)
        ELSE LET o == Head(g0.outer.rest)
             IN  Ret([g0 EXCEPT !.outer.rest = Tail(@),
                                !.cur_id = o,
                                !.cur_name = SymName(o),
                                !.inner = findChildren(o, g.child, AnyName)],
                     TRUE)

\* The while (true) loop of MemberGenerator, EnumValueGenerator,
\* BaseClassGenerator, LocalOrParamGenerator and of the ...ByName
\* generators: a child of another data kind than want_kind_ is passed over
\* without a row.
RECURSIVE NestedLoop(_)
NestedLoop(g) ==
    IF g.inner.null
    THEN LET a == advance_outer(g)
         IN  IF a.ret THEN NestedLoop(a.g) ELSE Ret(a.g, FALSE)
    ELSE IF g.inner.rest = <<>> THEN NestedLoop([g EXCEPT !.inner = NullEnum])
    ELSE LET s == Head(g.inner.rest)
             g1 == [g EXCEPT !.inner.rest = Tail(@)]
         IN  IF g.want_kind # AnyKind /\ pdb.syms[s].kind # g.want_kind
             THEN NestedLoop(g1)
             ELSE Emit(g1, Row(s, SymName(s), g.cur_id, g.cur_name))

\* next() of a generator over the children of the symbols of outer.
NestedNext(g, outer) ==
    IF g.started THEN NestedLoop(g)
    ELSE LET g1 == [g EXCEPT !.started = TRUE, !.outer = outer]
         IN  IF g1.outer.null THEN Ret(g1, FALSE)
             ELSE LET a == advance_outer(g1)
                  IN  IF a.ret THEN NestedLoop(a.g) ELSE Ret(a.g, FALSE)

\* MemberGenerator::next
MemberGenerator_next(g) == NestedNext(g, enum_symbols("SymTagUDT"))

\* EnumValueGenerator::next
EnumValueGenerator_next(g) == NestedNext(g, enum_symbols("SymTagEnum"))

\* BaseClassGenerator::next
BaseClassGenerator_next(g) == NestedNext(g, enum_symbols("SymTagUDT"))

\* LocalOrParamGenerator::next
LocalOrParamGenerator_next(g) == NestedNext(g, enum_symbols("SymTagFunction"))

\* UdtMembersByNameGenerator::next
UdtMembersByNameGenerator_next(g) ==
    NestedNext(g, find_symbols(g.name, "SymTagUDT"))

\* EnumValuesByNameGenerator::next
EnumValuesByNameGenerator_next(g) ==
    NestedNext(g, find_symbols(g.name, "SymTagEnum"))

\* The while (true) loop of the ...ById generators over the children of one
\* symbol.
RECURSIVE ChildLoop(_)
ChildLoop(g) ==
    IF g.inner.rest = <<>> THEN Ret(g, FALSE)
    ELSE LET s == Head(g.inner.rest)
             g1 == [g EXCEPT !.inner.rest = Tail(@)]
         IN  IF g.want_kind # AnyKind /\ pdb.syms[s].kind # g.want_kind
             THEN ChildLoop(g1)
             ELSE Emit(g1, Row(s, SymName(s), g.cur_id, g.cur_name))

\* next() of a generator over the children of the one symbol of id id_,
\* which must have the tag g.tag.
ChildrenByIdNext(g) ==
    IF g.started THEN ChildLoop(g)
    ELSE LET g1 == [g EXCEPT !.started = TRUE]
             symbol == symbolById(g.id)
         IN  IF ~pdb.open THEN Ret(g1, FALSE)
             ELSE IF symbol = 0 THEN Ret(g1, FALSE)
             ELSE IF pdb.syms[symbol].tag # g.tag THEN Ret(g1, FALSE)
             ELSE LET g2 == [g1 EXCEPT
                         !.cur_id = g.id,
                         !.cur_name = SymName(symbol),
                         !.inner = findChildren(symbol, g.child, AnyName)]
                  IN  IF g2.inner.null THEN Ret(g2, FALSE) ELSE ChildLoop(g2)

\* UdtMembersByIdGenerator::next
UdtMembersByIdGenerator_next(g) == ChildrenByIdNext(g)

\* EnumValuesByIdGenerator::next
EnumValuesByIdGenerator_next(g) == ChildrenByIdNext(g)

\* BaseClassesByDerivedIdGenerator::next
BaseClassesByDerivedIdGenerator_next(g) == ChildrenByIdNext(g)

\* LocalOrParamByFuncIdGenerator::next
LocalOrParamByFuncIdGenerator_next(g) == ChildrenByIdNext(g)

\* LineNumberGenerator::advance_compiland
advance_compiland(g) ==
    IF g.outer.null THEN Ret(g, FALSE)
    ELSE LET g0 == [g EXCEPT !.cur_id = 0, !.files = NullEnum,
                             !.inner = NullEnum]
         IN  IF g0.outer.rest = <<>> THEN Ret(g0, FALSE)
             ELSE LET c == Head(g0.outer.rest)
                  IN  Ret([g0 EXCEPT !.outer.rest = Tail(@),
                                     !.cur_id = c,
                                     !.files = findFile(c)], TRUE)

\* advance_file of LineNumberGenerator and LineNumbersByCompilandIdGenerator
advance_file(g) ==
    IF g.files.null THEN Ret(g, FALSE)
    ELSE LET g0 == [g EXCEPT !.inner = NullEnum]
         IN  IF g0.files.rest = <<>>
             THEN Ret([g0 EXCEPT !.files = NullEnum], FALSE)
             ELSE LET f == Head(g0.files.rest)
                  IN  Ret([g0 EXCEPT !.files.rest = Tail(@),
                                     !.inner = findLines(g.cur_id, f)], TRUE)

\* The while (true) loop of LineNumberGenerator::next
RECURSIVE LineLoop(_)
LineLoop(g) ==
    IF g.inner.null
    THEN LET a == advance_file(g)
         IN  IF a.ret THEN LineLoop(a.g)
             ELSE LET b == advance_compiland(a.g)
                  IN  IF b.ret THEN LineLoop(b.g) ELSE Ret(b.g, FALSE)
    ELSE IF g.inner.rest = <<>> THEN LineLoop([g EXCEPT !.inner = NullEnum])
    ELSE Emit([g EXCEPT !.inner.rest = Tail(@)],
              Row(Head(g.inner.rest), "", g.cur_id, ""))

\* LineNumberGenerator::next
LineNumberGenerator_next(g) ==
    IF g.started THEN LineLoop(g)
    ELSE LET g1 == [g EXCEPT !.started = TRUE]
             g2 == [g1 EXCEPT !.outer = enum_symbols("SymTagCompiland")]
         IN  IF ~pdb.open THEN Ret(g1, FALSE)
             ELSE IF g2.outer.null THEN Ret(g2, FALSE)
             ELSE LET a == advance_compiland(g2)
                  IN  IF a.ret THEN LineLoop(a.g) ELSE Ret(a.g, FALSE)

\* The while (true) loop of LineNumbersByCompilandIdGenerator::next
RECURSIVE FileLoop(_)
FileLoop(g) ==
    IF g.inner.null
    THEN LET a == advance_file(g)
         IN  IF a.ret THEN FileLoop(a.g) ELSE Ret(a.g, FALSE)
    ELSE IF g.inner.rest = <<>> THEN FileLoop([g EXCEPT !.inner = NullEnum])
    ELSE Emit([g EXCEPT !.inner.rest = Tail(@)],
              Row(Head(g.inner.rest), "", g.cur_id, ""))

\* LineNumbersByCompilandIdGenerator::next
LineNumbersByCompilandIdGenerator_next(g) ==
    IF g.started THEN FileLoop(g)
    ELSE LET g1 == [g EXCEPT !.started = TRUE]
             symbol == symbolById(g.id)
         IN  IF ~pdb.open THEN Ret(g1, FALSE)
             ELSE IF symbol = 0 THEN Ret(g1, FALSE)
             ELSE IF pdb.syms[symbol].tag # "SymTagCompiland" THEN Ret(g1, FALSE)
             ELSE FileLoop([g1 EXCEPT !.cur_id = g.id,
                                      !.files = findFile(symbol)])

(***************************************************************************)
(* The loops of the nested generators, one pass at a time.                 *)
(***************************************************************************)
\* What one pass through the body of a while (true) loop leaves: the
\* generator, and either the value next() returns or another pass (again).
Pass(g, r, again) == [g |-> g, ret |-> r, again |-> again]

\* A mistaken pass: an exhausted members_ is kept, not released.
NestedPassNoRelease(g) ==
    LET a == IF g.inner.null THEN advance_outer(g) ELSE Ret(g, TRUE)
    IN  IF ~a.ret THEN Pass(a.g, FALSE, FALSE)
        ELSE IF a.g.inner.null THEN Pass(a.g, FALSE, TRUE)
        ELSE IF a.g.inner.rest = <<>> THEN Pass(a.g, FALSE, TRUE)
        ELSE LET s == Head(a.g.inner.rest)
                 g1 == [a.g EXCEPT !.inner.rest = Tail(@)]
             IN  IF g.want_kind # AnyKind /\ pdb.syms[s].kind # g.want_kind
                 THEN Pass(g1, FALSE, TRUE)
                 ELSE LET e == Emit(g1, Row(s, SymName(s), a.g.cur_id,
                                            a.g.cur_name))
                      IN  Pass(e.g, e.ret, FALSE)

\* One pass of the while (true) loop of MemberGenerator, EnumValueGenerator,
\* BaseClassGenerator and LocalOrParamGenerator::next: without members_ the
\* next parent is taken (return false when there is none), then one child
\* is fetched; an exhausted members_ is released and a child of another
\* data kind is dropped, each with a continue.  A parent whose findChildren
\* fails, which advance_udt passes over in its own loop, is a pass here.
NestedPass(g) ==
    LET a == IF g.inner.null THEN advance_outer(g) ELSE Ret(g, TRUE)
    IN  IF ~a.ret THEN Pass(a.g, FALSE, FALSE)
        ELSE IF a.g.inner.null THEN Pass(a.g, FALSE, TRUE)
        ELSE IF a.g.inner.rest = <<>>
        THEN Pass([a.g EXCEPT !.inner = NullEnum], FALSE, TRUE)
        ELSE LET s == Head(a.g.inner.rest)
                 g1 == [a.g EXCEPT !.inner.rest = Tail(@)]
             IN  IF g.want_kind # AnyKind /\ pdb.syms[s].kind # g.want_kind
                 THEN Pass(g1, FALSE, TRUE)
                 ELSE LET e == Emit(g1, Row(s, SymName(s), a.g.cur_id,
                                            a.g.cur_name))
                      IN  Pass(e.g, e.ret, FALSE)

\* One pass of the while (true) loop of LineNumberGenerator::next: without
\* lines_ the next file is taken, and the next compiland when the files are
\* at their end (continue, or return false when there is none); then one
\* line is fetched, an exhausted lines_ being released with a continue.  A
\* file whose findLines fails, which advance_file passes over in its own
\* loop, is a pass here.
LinePass(g) ==
    LET a == IF g.inner.null THEN advance_file(g) ELSE Ret(g, TRUE)
    IN  IF ~a.ret
        THEN LET b == advance_compiland(a.g)
             IN  Pass(b.g, FALSE, b.ret)
        ELSE IF a.g.inner.null THEN Pass(a.g, FALSE, TRUE)
        ELSE IF a.g.inner.rest = <<>>
        THEN Pass([a.g EXCEPT !.inner = NullEnum], FALSE, TRUE)
        ELSE LET e == Emit([a.g EXCEPT !.inner.rest = Tail(@)],
                           Row(Head(a.g.inner.rest), "", a.g.cur_id, ""))
             IN  Pass(e.g, e.ret, FALSE)

\* The pass of the generator's loop.
LoopPass(g) ==
    IF g.cls = "LineNumberGenerator" THEN LinePass(g) ELSE NestedPass(g)

\* What is left to enumerate, outermost first: the parents, the files of
\* the current compiland, the children or lines of the current parent (a
\* held enumerator counts for one more than a released one).
Rank(g) ==
    <<Len(g.outer.rest),
      IF g.files.null THEN 0 ELSE 1, Len(g.files.rest),
      IF g.inner.null THEN 0 ELSE 1, Len(g.inner.rest)>>

\* r1 comes before r2 in the lexicographic order.
Before(r1, r2) ==
    \E i \in 1..Len(r1) :
        /\ r1[i] < r2[i]
        /\ \A j \in 1..(i - 1) : r1[j] = r2[j]

\* The loop run for at most n passes beyond the first: whether it came to
\* its return (ended), what it returned and left, the passes it took, and
\* whether each pass that went round again left less to enumerate.
RECURSIVE LoopWithin(_, _)
LoopWithin(g, n) ==
    LET p == LoopPass(g)
    IN  IF ~p.again
        THEN [g |-> p.g, ret |-> p.ret, ended |-> TRUE, passes |-> 1,
              consumes |-> TRUE]
        ELSE IF n = 0
        THEN [g |-> p.g, ret |-> FALSE, ended |-> FALSE, passes |-> 1,
              consumes |-> Before(Rank(p.g), Rank(g))]
        ELSE LET r == LoopWithin(p.g, n - 1)
             IN  [r EXCEPT !.passes = @ + 1,
                           !.consumes = @ /\ Before(Rank(p.g), Rank(g))]

\* The generator as the while (true) loop of next() finds it, after the
\* if (!started_) block of the first call; entered says whether the loop is
\* reached at all.
LoopEntry(g) ==
    IF g.started THEN [g |-> g, entered |-> TRUE]
    ELSE IF g.cls = "LineNumberGenerator"
    THEN LET g1 == [g EXCEPT !.started = TRUE]
             g2 == [g1 EXCEPT !.outer = enum_symbols("SymTagCompiland")]
         IN  IF ~pdb.open THEN [g |-> g1, entered |-> FALSE]
             ELSE IF g2.outer.null THEN [g |-> g2, entered |-> FALSE]
             ELSE LET a == advance_compiland(g2)
                  IN  [g |-> a.g, entered |-> a.ret]
    ELSE LET g1 == [g EXCEPT !.started = TRUE,
                             !.outer = enum_symbols(g.tag)]
         IN  IF g1.outer.null THEN [g |-> g1, entered |-> FALSE]
             ELSE LET a == advance_outer(g1)
                  IN  [g |-> a.g, entered |-> a.ret]

\* The sections in ascending section_number (std::sort at the end of build).
SortedSeq(S) ==
    CHOOSE f \in [1..Cardinality(S) -> S] :
        \A i, j \in 1..Cardinality(S) : i < j => f[i] < f[j]

\* SectionGenerator::build: one CachedSection per section number met in the
\* SectionContribs table, sorted; nothing without a session.
build ==
    IF ~pdb.open \/ pdb.fails THEN <<>>
    ELSE SortedSeq({pdb.contribs[i] : i \in 1..Len(pdb.contribs)})

\* SectionGenerator::next, with current() = sections_[idx_ - 1]
SectionGenerator_next(g) ==
    LET g1 == IF g.started THEN g
              ELSE [g EXCEPT !.started = TRUE, !.sections = build]
    IN  IF g1.idx >= Len(g1.sections) THEN Ret(g1, FALSE)
        ELSE Emit([g1 EXCEPT !.idx = @ + 1],
                  Row(g1.sections[g1.idx + 1], "", 0, ""))

\* Generator::next of the generator's class.
Generator_next(g) ==
    CASE g.cls = "SymbolGenerator" -> SymbolGenerator_next(g)
      [] g.cls = "CompilandGenerator" -> CompilandGenerator_next(g)
      [] g.cls = "SourceFileGenerator" -> SourceFileGenerator_next(g)
      [] g.cls = "LineNumberGenerator" -> LineNumberGenerator_next(g)
      [] g.cls = "SectionGenerator" -> SectionGenerator_next(g)
      [] g.cls = "MemberGenerator" -> MemberGenerator_next(g)
      [] g.cls = "EnumValueGenerator" -> EnumValueGenerator_next(g)
      [] g.cls = "BaseClassGenerator" -> BaseClassGenerator_next(g)
      [] g.cls = "LocalOrParamGenerator" -> LocalOrParamGenerator_next(g)
      [] g.cls = "SymbolByNameGenerator" -> SymbolByNameGenerator_next(g)
      [] g.cls = "SymbolByIdGenerator" -> SymbolByIdGenerator_next(g)
      [] g.cls = "CompilandByNameGenerator" -> CompilandByNameGenerator_next(g)
      [] g.cls = "CompilandByIdGenerator" -> CompilandByIdGenerator_next(g)
      [] g.cls = "SourceFileByIdGenerator" -> SourceFileByIdGenerator_next(g)
      [] g.cls = "UdtMembersByNameGenerator" -> UdtMembersByNameGenerator_next(g)
      [] g.cls = "EnumValuesByNameGenerator" -> EnumValuesByNameGenerator_next(g)
      [] g.cls = "LineNumbersByCompilandIdGenerator" ->
             LineNumbersByCompilandIdGenerator_next(g)
      [] g.cls = "UdtMembersByIdGenerator" -> UdtMembersByIdGenerator_next(g)
      [] g.cls = "EnumValuesByIdGenerator" -> EnumValuesByIdGenerator_next(g)
      [] g.cls = "BaseClassesByDerivedIdGenerator" ->
             BaseClassesByDerivedIdGenerator_next(g)
      [] g.cls = "LocalOrParamByFuncIdGenerator" ->
             LocalOrParamByFuncIdGenerator_next(g)

(***************************************************************************)
(* The table definitions and their filters (define_*_table, TableRegistry) *)
(***************************************************************************)
\* The generator the table's .generator(...) factory makes for a full scan.
TableGenerator(t) ==
    CASE t \in SymbolTables ->
             NewGen("SymbolGenerator", TableTag(t), "SymTagNull", AnyKind, 0, "", FALSE)
      [] t = "compilands" ->
             NewGen("CompilandGenerator", "SymTagCompiland", "SymTagNull", AnyKind, 0, "", FALSE)
      [] t = "source_files" ->
             NewGen("SourceFileGenerator", "SymTagNull", "SymTagNull", AnyKind, 0, "", FALSE)
      [] t = "line_numbers" ->
             NewGen("LineNumberGenerator", "SymTagCompiland", "SymTagNull", AnyKind, 0, "", FALSE)
      [] t = "sections" ->
             NewGen("SectionGenerator", "SymTagNull", "SymTagNull", AnyKind, 0, "", FALSE)
      [] t = "udt_members" ->
             NewGen("MemberGenerator", "SymTagUDT", "SymTagData", AnyKind, 0, "", FALSE)
      [] t = "enum_values" ->
             NewGen("EnumValueGenerator", "SymTagEnum", "SymTagData", AnyKind, 0, "", FALSE)
      [] t = "base_classes" ->
             NewGen("BaseClassGenerator", "SymTagUDT", "SymTagBaseClass", AnyKind, 0, "", FALSE)
      [] t = "locals" ->
             NewGen("LocalOrParamGenerator", "SymTagFunction", "SymTagData", "DataIsLocal", 0, "", FALSE)
      [] t = "parameters" ->
             NewGen("LocalOrParamGenerator", "SymTagFunction", "SymTagData", "DataIsParam", 0, "", FALSE)

\* The columns a filter was added on (add_filter_eq, add_filter_eq_text).
IntFilterCols(t) ==
    CASE t \in SymbolTables \cup {"compilands", "source_files"} -> {"id"}
      [] t = "udt_members" -> {"udt_id"}
      [] t = "enum_values" -> {"enum_id"}
      [] t = "base_classes" -> {"derived_id"}
      [] t \in {"locals", "parameters"} -> {"func_id"}
      [] t = "line_numbers" -> {"compiland_id"}
      [] OTHER -> {}

TextFilterCols(t) ==
    CASE t \in SymbolTables \cup {"compilands"} -> {"name"}
      [] t = "udt_members" -> {"udt_name"}
      [] t = "enum_values" -> {"enum_name"}
      [] OTHER -> {}

\* An SQL value (sqlite3_value) of the column's type.  A 64-bit integer is
\* kept as two parts, the value being hi * 2^32 + i with 0 <= i < 2^32.
IntValue(i) == [type |-> "integer", hi |-> 0, i |-> i, s |-> ""]

TextValue(s) == [type |-> "text", hi |-> 0, i |-> 0, s |-> s]

\* The integer hi * 2^32 + lo.
BigValue(hi, lo) == [type |-> "integer", hi |-> hi, i |-> lo, s |-> ""]

\* sqlite3_result_null
SqlNull == [type |-> "null", hi |-> 0, i |-> 0, s |-> ""]

\* The int64_t of the value: its two parts.
sqlite3_value_int64(val) == [hi |-> val.hi, lo |-> val.i]

sqlite3_value_text(val) == val.s

\* The value of column c of a row, as the column's getter gives it.
ColumnValue(row, c) ==
    CASE c = "id" -> IntValue(row.id)
      [] c = "name" -> TextValue(row.name)
      [] c \in {"udt_id", "enum_id", "derived_id", "func_id", "compiland_id"} ->
             IntValue(row.owner_id)
      [] c \in {"udt_name", "enum_name"} -> TextValue(row.owner_name)

\* id > 0xFFFFFFFFLL, for a positive id: 0xFFFFFFFF is 65536 * 65536 - 1
\* id <= 0
NotPositive(id) == id.hi < 0 \/ (id.hi = 0 /\ id.lo <= 0)

\* id > 0xFFFFFFFFLL
AboveDword(id) == id.hi >= 1

\* static_cast<DWORD>(id): the low 32 bits
static_cast_DWORD(id) == id.lo

\* A GeneratorRowIterator as constructed: eof_ = true.
NewIterator(g) == [gen_ |-> g, has_gen |-> TRUE, eof_ |-> TRUE]

\* A GeneratorRowIterator over nullptr.
NullIterator == [gen_ |-> NoGen, has_gen |-> FALSE, eof_ |-> TRUE]

\* The generator class the id filter of table t makes.
ByIdGenerator(t, id) ==
    CASE t = "data" ->
             NewGen("SymbolByIdGenerator", "SymTagData", "SymTagNull", AnyKind, id, "", TRUE)
      [] t \in SymbolTables \ {"data"} ->
             NewGen("SymbolByIdGenerator", TableTag(t), "SymTagNull", AnyKind, id, "", FALSE)
      [] t = "compilands" ->
             NewGen("CompilandByIdGenerator", "SymTagCompiland", "SymTagNull", AnyKind, id, "", FALSE)
      [] t = "source_files" ->
             NewGen("SourceFileByIdGenerator", "SymTagNull", "SymTagNull", AnyKind, id, "", FALSE)
      [] t = "udt_members" ->
             NewGen("UdtMembersByIdGenerator", "SymTagUDT", "SymTagData", AnyKind, id, "", FALSE)
      [] t = "enum_values" ->
             NewGen("EnumValuesByIdGenerator", "SymTagEnum", "SymTagData", AnyKind, id, "", FALSE)
      [] t = "base_classes" ->
             NewGen("BaseClassesByDerivedIdGenerator", "SymTagUDT", "SymTagBaseClass", AnyKind, id, "", FALSE)
      [] t = "locals" ->
             NewGen("LocalOrParamByFuncIdGenerator", "SymTagFunction", "SymTagData", "DataIsLocal", id, "", FALSE)
      [] t = "parameters" ->
             NewGen("LocalOrParamByFuncIdGenerator", "SymTagFunction", "SymTagData", "DataIsParam", id, "", FALSE)
      [] t = "line_numbers" ->
             NewGen("LineNumbersByCompilandIdGenerator", "SymTagCompiland", "SymTagNull", AnyKind, id, "", FALSE)

\* The generator class the name filter of table t makes.
ByNameGenerator(t, name) ==
    CASE t \in SymbolTables ->
             NewGen("SymbolByNameGenerator", TableTag(t), "SymTagNull", AnyKind, 0, name, FALSE)
      [] t = "compilands" ->
             NewGen("CompilandByNameGenerator", "SymTagCompiland", "SymTagNull", AnyKind, 0, name, FALSE)
      [] t = "udt_members" ->
             NewGen("UdtMembersByNameGenerator", "SymTagUDT", "SymTagData", AnyKind, 0, name, FALSE)
      [] t = "enum_values" ->
             NewGen("EnumValuesByNameGenerator", "SymTagEnum", "SymTagData", AnyKind, 0, name, FALSE)

\* A mistaken factory: the id is cast to DWORD without the range check.
IntFilterUnchecked(t, val) ==
    NewIterator(ByIdGenerator(t, static_cast_DWORD(sqlite3_value_int64(val))))

\* add_filter_eq's factory call with the factories of TableRegistry: an id
\* outside 1..0xFFFFFFFF gets an iterator over nullptr.
IntFilter(t, val) ==
    LET id == sqlite3_value_int64(val)
    IN  IF NotPositive(id) \/ AboveDword(id) THEN NullIterator
        ELSE NewIterator(ByIdGenerator(t, static_cast_DWORD(id)))

\* add_filter_eq_text's factory call with the factories of TableRegistry
TextFilter(t, val) == NewIterator(ByNameGenerator(t, sqlite3_value_text(val)))

(***************************************************************************)
(* GeneratorRowIterator                                                    *)
(***************************************************************************)
\* GeneratorRowIterator::next
GeneratorRowIterator_next(it) ==
    IF ~it.has_gen THEN [it EXCEPT !.eof_ = TRUE]
    ELSE LET r == Generator_next(it.gen_)
         IN  [it EXCEPT !.gen_ = r.g, !.eof_ = ~r.ret]

\* A mistaken rowid(): the generator's counter whatever eof_ is.
rowid_unguarded(it) == it.gen_.rowid

\* GeneratorRowIterator::rowid
GeneratorRowIterator_rowid(it) ==
    IF it.eof_ \/ ~it.has_gen THEN 0 ELSE it.gen_.rowid

\* What the cursor reads off a row: its rowid and its columns.
ReadRow(it) == [rowid |-> GeneratorRowIterator_rowid(it), row |-> it.gen_.current]

NoFilter == [col |-> "", val |-> IntValue(0)]

\* Values an equality constraint is tried with.
FilterIds == 0..MaxSyms

(***************************************************************************)
(* Cursors: the calls a virtual-table cursor makes on its iterator, in any *)
(* order, with several cursors open on the table.                          *)
(***************************************************************************)
\* Records in the PDB while cursors are driven in any order.
MaxCurSyms == 2

CursorIds == {1, 2}

\* The generators that walk the children of each symbol of an outer
\* enumerator (udts_, enums_, funcs_).
NestedClasses ==
    {"MemberGenerator", "EnumValueGenerator", "BaseClassGenerator",
     "LocalOrParamGenerator", "UdtMembersByNameGenerator",
     "EnumValuesByNameGenerator"}

\* The generators that walk the children of the one symbol of an id.
ChildrenByIdClasses ==
    {"UdtMembersByIdGenerator", "EnumValuesByIdGenerator",
     "BaseClassesByDerivedIdGenerator", "LocalOrParamByFuncIdGenerator"}

\* next() calls Next through a null CComPtr: advance_udt, advance_enum and
\* advance_func call udts_->Next with no check of udts_, reached with
\* started_ set, no members_ and no udts_; the ...ById generators call
\* members_->Next right after the if (!started_) block, reached with
\* started_ set and no members_.  The behaviour is undefined.
DerefsNull(g) ==
    \/ g.cls \in NestedClasses /\ g.started /\ g.inner.null /\ g.outer.null
    \/ g.cls \in ChildrenByIdClasses /\ g.started /\ g.inner.null

\* What a call of next() does: it returns, or the process faults.
Outcome(g, r, fault) == [g |-> g, ret |-> r, fault |-> fault]

\* What undefined behaviour can come to: an access violation, or a return
\* of either value with the generator as it was.
NullDerefOutcomes(g) ==
    {Outcome(g, FALSE, TRUE), Outcome(g, FALSE, FALSE), Outcome(g, TRUE, FALSE)}

\* Generator::next in any state of the generator.
Generator_next_outcomes(g) ==
    IF DerefsNull(g) THEN NullDerefOutcomes(g)
    ELSE LET r == Generator_next(g) IN {Outcome(r.g, r.ret, FALSE)}

\* GeneratorRowIterator::next in any state of the iterator.
GeneratorRowIterator_next_outcomes(it) ==
    IF ~it.has_gen
    THEN {[it |-> [it EXCEPT !.eof_ = TRUE], ret |-> FALSE, fault |-> FALSE,
           gen_called |-> FALSE]}
    ELSE {[it |-> [it EXCEPT !.gen_ = o.g, !.eof_ = ~o.ret],
           ret |-> o.ret, fault |-> o.fault,
           gen_called |-> TRUE] : o \in Generator_next_outcomes(it.gen_)}

\* Column indexes handed to column(): two of the table's, and one past the
\* table's columns.
ColumnNames == {"id", "name"}

OutOfRange == "out of range"

\* A mistaken column(): the record is read whatever eof_ is.
column_unguarded(it, col) ==
    IF col \notin ColumnNames THEN [value |-> SqlNull, used_current |-> FALSE]
    ELSE [value |-> ColumnValue(it.gen_.current, col), used_current |-> TRUE]

\* GeneratorRowIterator::column: the value handed to SQLite, and whether
\* gen_->current() was called for it.
GeneratorRowIterator_column(it, col) ==
    IF it.eof_ THEN [value |-> SqlNull, used_current |-> FALSE]
    ELSE IF col \notin ColumnNames
    THEN [value |-> SqlNull, used_current |-> FALSE]
    ELSE [value |-> ColumnValue(it.gen_.current, col), used_current |-> TRUE]

\* The plan a cursor is opened with: a full scan, or one of the table's
\* filters with the value of the constraint.
ScanPlan == [kind |-> "scan", col |-> "", val |-> SqlNull]

FilterPlan(c, val) == [kind |-> "filter", col |-> c, val |-> val]

\* The iterator the table makes for a plan.
PlanIterator(t, plan) ==
    IF plan.kind = "scan" THEN NewIterator(TableGenerator(t))
    ELSE IF plan.col \in IntFilterCols(t) THEN IntFilter(t, plan.val)
    ELSE TextFilter(t, plan.val)

\* A cursor that is not open.  last_ret: what the last next() of the
\* cursor's iterator returned; ended: the generator's next() has returned
\* false.
NoCursor ==
    [open |-> FALSE, plan |-> ScanPlan, it |-> NullIterator,
     last_ret |-> "none", ended |-> FALSE]

NoCursors == [c \in CursorIds |-> NoCursor]

NoCall ==
    [op |-> "none", c |-> 0, ret |-> FALSE, fault |-> FALSE, first |-> FALSE,
     after_false |-> FALSE, gen_called |-> FALSE, used_current |-> FALSE,
     valid_current |-> FALSE, col |-> "", value |-> SqlNull,
     cons |-> {}, plan |-> ScanPlan, cost |-> 0, rows |-> 0]

\* Integer values of a constraint: in and around 1..0xFFFFFFFF.
CursorInts ==
    {BigValue(hi, lo) : hi \in {-1, 0, 1}, lo \in 0..(MaxCurSyms + 1)}

Plans(t) ==
    {ScanPlan}
    \cup {FilterPlan(c, val) : c \in IntFilterCols(t), val \in CursorInts}
    \cup {FilterPlan(c, TextValue(nm)) : c \in TextFilterCols(t), nm \in Names}

\* A mistaken xFilter: the table keeps one generator, and a cursor opened
\* while another is open gets the iterator the other stands on.
CursorFilterShared(c, plan) ==
    /\ ~call.fault
    /\ cur' = [cur EXCEPT ![c] =
                  [open |-> TRUE, plan |-> plan,
                   it |-> IF \E d \in CursorIds \ {c} : cur[d].open
                          THEN cur[CHOOSE d \in CursorIds \ {c} : cur[d].open].it
                          ELSE PlanIterator(table, plan),
                   last_ret |-> "none", ended |-> FALSE]]
    /\ call' = [NoCall EXCEPT !.op = "filter", !.c = c]
    /\ UNCHANGED <<pdb, table, phase, iter, scanned, filt, filtered>>
    /\ UNCHANGED <<dvars, svars>>

\* xFilter: the cursor gets a new iterator for the plan, made by the
\* table's generator factory or by the filter's factory; an iterator it had
\* is destroyed.
CursorFilter(c, plan) ==
    /\ ~call.fault
    /\ cur' = [cur EXCEPT ![c] = [open |-> TRUE, plan |-> plan,
                                  it |-> PlanIterator(table, plan),
                                  last_ret |-> "none", ended |-> FALSE]]
    /\ call' = [NoCall EXCEPT !.op = "filter", !.c = c]
    /\ UNCHANGED <<pdb, table, phase, iter, scanned, filt, filtered>>
    /\ UNCHANGED <<dvars, svars>>

\* A call of next() on the cursor's iterator, at any time.
CursorNext(c) ==
    /\ ~call.fault
    /\ cur[c].open
    /\ \E o \in GeneratorRowIterator_next_outcomes(cur[c].it) :
          /\ cur' = [cur EXCEPT
                        ![c].it = o.it,
                        ![c].last_ret = IF o.ret THEN "true" ELSE "false",
                        ![c].ended = @ \/ (o.gen_called /\ ~o.ret)]
          /\ call' = [NoCall EXCEPT
                        !.op = "next", !.c = c, !.ret = o.ret,
                        !.fault = o.fault,
                        !.first = (cur[c].last_ret = "none"),
                        !.after_false = cur[c].ended,
                        !.gen_called = o.gen_called]
    /\ UNCHANGED <<pdb, table, phase, iter, scanned, filt, filtered>>
    /\ UNCHANGED <<dvars, svars>>

\* A call of column() on the cursor's iterator, at any time.
CursorColumn(c, col) ==
    /\ ~call.fault
    /\ cur[c].open
    /\ LET r == GeneratorRowIterator_column(cur[c].it, col)
       IN  call' = [NoCall EXCEPT
                       !.op = "column", !.c = c, !.col = col,
                       !.used_current = r.used_current,
                       !.valid_current = (cur[c].last_ret = "true"),
                       !.value = r.value]
    /\ UNCHANGED <<pdb, table, phase, iter, scanned, filt, filtered, cur>>
    /\ UNCHANGED <<dvars, svars>>

\* A call of rowid() on the cursor's iterator, at any time.
CursorRowid(c) ==
    /\ ~call.fault
    /\ cur[c].open
    /\ call' = [NoCall EXCEPT
                   !.op = "rowid", !.c = c,
                   !.valid_current = (cur[c].last_ret = "true"),
                   !.value = IntValue(GeneratorRowIterator_rowid(cur[c].it))]
    /\ UNCHANGED <<pdb, table, phase, iter, scanned, filt, filtered, cur>>
    /\ UNCHANGED <<dvars, svars>>

\* xClose: the cursor and its iterator are destroyed.
CursorClose(c) ==
    /\ ~call.fault
    /\ cur[c].open
    /\ cur' = [cur EXCEPT ![c] = NoCursor]
    /\ call' = [NoCall EXCEPT !.op = "close", !.c = c]
    /\ UNCHANGED <<pdb, table, phase, iter, scanned, filt, filtered>>
    /\ UNCHANGED <<dvars, svars>>

(***************************************************************************)
(* The filters a table declares and the plan chosen among them.            *)
(***************************************************************************)
\* A mistaken declaration: the costs of the id and the name filter swapped.
FiltersSwapped(t) ==
    IF t \in SymbolTables \cup {"compilands"}
    THEN {[col |-> "id", filter_id |-> 1, cost |-> 5, rows |-> 10],
          [col |-> "name", filter_id |-> 2, cost |-> 1, rows |-> 1]}
    ELSE {}

\* def.filters after TableRegistry's constructor: the column, filter_id
\* (position + 1), cost and est_rows given to add_filter_eq and
\* add_filter_eq_text.
Filters(t) ==
    CASE t \in SymbolTables \cup {"compilands"} ->
             {[col |-> "id", filter_id |-> 1, cost |-> 1, rows |-> 1],
              [col |-> "name", filter_id |-> 2, cost |-> 5, rows |-> 10]}
      [] t = "source_files" ->
             {[col |-> "id", filter_id |-> 1, cost |-> 1, rows |-> 1]}
      [] t = "udt_members" ->
             {[col |-> "udt_id", filter_id |-> 1, cost |-> 10, rows |-> 100],
              [col |-> "udt_name", filter_id |-> 2, cost |-> 10, rows |-> 100]}
      [] t = "enum_values" ->
             {[col |-> "enum_id", filter_id |-> 1, cost |-> 10, rows |-> 100],
              [col |-> "enum_name", filter_id |-> 2, cost |-> 10, rows |-> 100]}
      [] t = "base_classes" ->
             {[col |-> "derived_id", filter_id |-> 1, cost |-> 10, rows |-> 100]}
      [] t \in {"locals", "parameters"} ->
             {[col |-> "func_id", filter_id |-> 1, cost |-> 10, rows |-> 100]}
      [] t = "line_numbers" ->
             {[col |-> "compiland_id", filter_id |-> 1, cost |-> 50,
               rows |-> 1000]}
      [] OTHER -> {}

\* PdbSession::count_symbols: get_Count of enum_symbols(tag), 0 without an
\* enumerator.
count_symbols(tag) ==
    IF enum_symbols(tag).null THEN 0 ELSE Len(enum_symbols(tag).rest)

to_size_t_clamped(v) == IF v <= 0 THEN 0 ELSE v

\* A mistaken estimate: one number for every table.
estimate_rows_fixed(t) == 100000

\* The table's estimate_rows function.
estimate_rows(t) ==
    CASE t \in SymbolTables \cup {"compilands"} ->
             to_size_t_clamped(count_symbols(TableTag(t)))
      [] t = "source_files" -> 1000
      [] t = "sections" -> 128
      [] OTHER -> 100000

\* A constraint the engine offers: a column, an operator, and the value it
\* will have when the plan is executed.
NoFilterCol == "rva"

ConstraintCols(t) == IntFilterCols(t) \cup TextFilterCols(t) \cup {NoFilterCol}

ConstraintValue(t, c) == IF c \in TextFilterCols(t) THEN TextValue("a") ELSE IntValue(1)

Constraints(t) ==
    {[col |-> c, op |-> op, val |-> ConstraintValue(t, c)] :
        c \in ConstraintCols(t), op \in {"=", "<"}}

\* The sets of constraints of a query on the table: up to two.
ConstraintSets(t) == {S \in SUBSET Constraints(t) : Cardinality(S) <= 2}

\* Step 1: the filters declared for the column of an equality constraint.
Usable(t, cons) ==
    {f \in Filters(t) : \E k \in cons : k.col = f.col /\ k.op = "="}

\* f is no worse than g: lower cost, or the same cost and no more rows.
NoWorse(f, g) ==
    f.cost < g.cost \/ (f.cost = g.cost /\ f.rows <= g.rows)

\* Step 2: the filters that may be selected: the lowest estimated_cost, and
\* among those the lowest estimated_row_count.
Best(F) == {f \in F : \A g \in F : NoWorse(f, g)}

\* Step 3: the cost reported for the full scan.
full_scan_cost(t) == estimate_rows(t)

\* The plans the planner may report for the constraints: the filter
\* selected, the value of its constraint, and the reported cost and rows.
best_index(t, cons) ==
    IF Usable(t, cons) = {}
    THEN {[plan |-> ScanPlan, cost |-> full_scan_cost(t),
           rows |-> estimate_rows(t)]}
    ELSE UNION {{[plan |-> FilterPlan(f.col, k.val), cost |-> f.cost,
                  rows |-> f.rows] :
                    k \in {x \in cons : x.col = f.col /\ x.op = "="}} :
                f \in Best(Usable(t, cons))}

\* xBestIndex: the engine offers the constraints and is told the plan.
xBestIndex(cons) ==
    /\ ~call.fault
    /\ \E p \in best_index(table, cons) :
          call' = [NoCall EXCEPT !.op = "best_index", !.c = 1, !.cons = cons,
                                 !.plan = p.plan, !.cost = p.cost,
                                 !.rows = p.rows]
    /\ UNCHANGED <<pdb, table, phase, iter, scanned, filt, filtered, cur>>
    /\ UNCHANGED <<dvars, svars>>

\* Step 4: the engine executes the plan it was told.
PlannedFilter ==
    /\ call.op = "best_index"
    /\ CursorFilter(1, call.plan)

(***************************************************************************)
(* TableRegistry: the table definitions it is constructed with and their   *)
(* registration with the database.                                         *)
(***************************************************************************)
\* def.columns as define_*_table builds it: the names, in the order of the
\* column_int64, column_int and column_text calls.
Columns(t) ==
    CASE t \in {"functions", "publics"} ->
             <<"id", "name", "undecorated", "rva", "length", "section", "offset">>
      [] t = "data" -> <<"id", "name", "rva", "length", "section", "offset">>
      [] t \in {"udts", "enums", "typedefs"} -> <<"id", "name", "length">>
      [] t = "compilands" -> <<"id", "name", "library", "language">>
      [] t = "source_files" -> <<"id", "filename", "checksum_type">>
      [] t = "line_numbers" ->
             <<"file_id", "line", "column", "rva", "length", "compiland_id">>
      [] t = "sections" ->
             <<"number", "rva", "length", "characteristics", "readable",
               "writable", "executable", "code">>
      [] t = "thunks" -> <<"id", "name", "rva", "length", "section">>
      [] t = "labels" -> <<"id", "name", "rva", "section", "offset">>
      [] t = "udt_members" ->
             <<"udt_id", "udt_name", "id", "name", "type", "offset", "length",
               "access", "is_static", "is_virtual">>
      [] t = "enum_values" -> <<"enum_id", "enum_name", "id", "name", "value">>
      [] t = "base_classes" ->
             <<"derived_id", "derived_name", "base_id", "base_name", "offset",
               "is_virtual", "access">>
      [] t \in {"locals", "parameters"} ->
             <<"func_id", "func_name", "id", "name", "type", "location_type",
               "offset_or_register">>

\* def.find_column(column_name): the column's index, -1 for none.
find_column(columns, name) ==
    IF \E i \in 1..Len(columns) : columns[i] = name
    THEN (CHOOSE i \in 1..Len(columns) : columns[i] = name) - 1
    ELSE -1

\* add_filter_eq, add_filter_eq_text: nothing for a column the table does
\* not have, else a filter appended with filter_id = filters.size() + 1.
add_filter_eq(def, f) ==
    LET col_idx == find_column(def.columns, f.col)
    IN  IF col_idx < 0 THEN def
        ELSE [def EXCEPT !.filters =
                 Append(@, [col_idx |-> col_idx, filter_id |-> Len(@) + 1,
                            cost |-> f.cost, rows |-> f.rows])]

\* The filters of Filters(t) from position i on, added in their order.
RECURSIVE AddFilters(_, _, _)
AddFilters(def, t, i) ==
    IF \E f \in Filters(t) : f.filter_id = i
    THEN AddFilters(add_filter_eq(def, CHOOSE f \in Filters(t) : f.filter_id = i),
                    t, i + 1)
    ELSE def

\* TableRegistry::TableRegistry: each member is built by its define_*_table
\* and then given its filters.
TableRegistry(t) ==
    AddFilters([name |-> t, columns |-> Columns(t), filters |-> <<>>], t, 1)

\* The order in which register_all registers the tables.
RegisterOrder ==
    <<"functions", "publics", "data", "udts", "enums", "typedefs", "thunks",
      "labels", "compilands", "source_files", "line_numbers", "sections",
      "udt_members", "enum_values", "base_classes", "locals", "parameters">>

\* The registry and the database's modules.
Registry(d, r) == [defs |-> d, registered |-> r]

\* xsql::Database::register_generator_table(module_name, &def) and
\* create_table(name, module_name): the database keeps the pointer and
\* reads the definition through it.
register_generator_table(reg, module_name, t) ==
    Registry(reg.defs, Append(reg.registered, module_name))

\* A mistaken register_one: the definition is moved into the database, and
\* the registry's member is left empty.
register_one_moved(reg, t) ==
    Registry([reg.defs EXCEPT ![t].columns = <<>>, ![t].filters = <<>>],
             Append(reg.registered, "pdb_" \o t))

\* TableRegistry::register_one
register_one(reg, t) ==
    register_generator_table(reg, "pdb_" \o reg.defs[t].name, t)

RECURSIVE RegisterFrom(_, _)
RegisterFrom(reg, i) ==
    IF i > Len(RegisterOrder) THEN reg
    ELSE RegisterFrom(register_one(reg, RegisterOrder[i]), i + 1)

\* TableRegistry::register_all, called once on a new registry.
register_all ==
    /\ registered = <<>>
    /\ LET reg == RegisterFrom(Registry(defs, registered), 1)
       IN  /\ defs' = reg.defs
           /\ registered' = reg.registered
    /\ UNCHANGED <<dvars, gvars, hvars, evars, uvars>>

\* The registry as constructed, not registered yet.
RInit ==
    /\ defs = [t \in Tables |-> TableRegistry(t)]
    /\ registered = <<>>

(***************************************************************************)
(* HTTP mode (run_http_mode): the routes' handlers on the server's handler *)
(* threads.                                                                *)
(***************************************************************************)
\* The server's handler threads.
HandlerThreads == {"h1", "h2"}

Routes == {"/", "/help", "/query", "/status", "/health", "/shutdown"}

\* A request header: whether the request has it, and its value as the
\* first characters (those "Bearer " is compared with) and the rest.
NoHeader == [has |-> FALSE, prefix |-> "", rest |-> ""]

Header(prefix, rest) == [has |-> TRUE, prefix |-> prefix, rest |-> rest]

\* req.get_header_value(name)
get_header_value(h) == h.prefix \o h.rest

Request(path, x, a, body) ==
    [path |-> path, x_xsql_token |-> x, authorization |-> a, body |-> body]

NoRequest == Request("", NoHeader, NoHeader, "")

\* res.status (0 while nothing is set), and what the handler did for the
\* request: entered db.query, started the thread that stops the server.
Response(status, queried, stops) ==
    [status |-> status, queried |-> queried, stops |-> stops]

NoResponse == Response(0, FALSE, FALSE)

\* The token the handlers take from the request: X-XSQL-Token if the
\* request has that header, else what follows "Bearer " in Authorization.
TokenOf(req) ==
    IF req.x_xsql_token.has THEN get_header_value(req.x_xsql_token)
    ELSE IF req.authorization.has /\ req.authorization.prefix = "Bearer "
    THEN req.authorization.rest
    ELSE ""

\* A mistaken check: a request with no token at all is let through.
UnauthorizedUnlessEmpty(req) ==
    auth_token # "" /\ TokenOf(req) # "" /\ TokenOf(req) # auth_token

\* if (!auth_token.empty()) { ... if (token != auth_token) { 401 } }
Unauthorized(req) == auth_token # "" /\ TokenOf(req) # auth_token

\* A request is dispatched to the route's handler on a free thread.
HttpAccept(h, req) ==
    /\ svr # "stopped"
    /\ hpc[h] = "idle"
    /\ hpc' = [hpc EXCEPT ![h] = "handler"]
    /\ hreq' = [hreq EXCEPT ![h] = req]
    /\ hres' = [hres EXCEPT ![h] = NoResponse]
    /\ UNCHANGED <<auth_token, query_mutex, svr, defs, registered>>
    /\ UNCHANGED <<dvars, gvars, evars, uvars>>

\* The response is set and the handler returns.
Respond(h, status) ==
    /\ hres' = [hres EXCEPT ![h].status = status]
    /\ hpc' = [hpc EXCEPT ![h] = "idle"]

\* The handlers of / and /help, and the handlers of /query, /status,
\* /health and /shutdown up to their use of the database or of the server.
HttpHandler(h) ==
    /\ hpc[h] = "handler"
    /\ LET req == hreq[h]
       IN  CASE req.path \in {"/", "/help"} ->
                    Respond(h, 200) /\ UNCHANGED <<svr>>
             [] req.path \in Routes \ {"/", "/help"} /\ Unauthorized(req) ->
                    Respond(h, 401) /\ UNCHANGED <<svr>>
             [] req.path = "/query" /\ ~Unauthorized(req) ->
                    IF req.body = ""
                    THEN Respond(h, 400) /\ UNCHANGED <<svr>>
                    ELSE /\ hpc' = [hpc EXCEPT ![h] = "lock"]
                         /\ UNCHANGED <<hres, svr>>
             [] req.path \in {"/status", "/health"} /\ ~Unauthorized(req) ->
                    /\ hpc' = [hpc EXCEPT ![h] = "db"]
                    /\ hres' = [hres EXCEPT ![h].queried = TRUE]
                    /\ UNCHANGED <<svr>>
             [] req.path = "/shutdown" /\ ~Unauthorized(req) ->
                    /\ hres' = [hres EXCEPT ![h].status = 200, ![h].stops = TRUE]
                    /\ hpc' = [hpc EXCEPT ![h] = "idle"]
                    /\ svr' = IF svr = "stopped" THEN svr ELSE "stopping"
    /\ UNCHANGED <<auth_token, query_mutex, hreq, defs, registered>>
    /\ UNCHANGED <<dvars, gvars, evars, uvars>>

\* /query: std::lock_guard<std::mutex> lock(query_mutex); and the call of
\* query_result_to_json, which enters db.query.
HttpQueryLock(h) ==
    /\ hpc[h] = "lock"
    /\ query_mutex = Free
    /\ query_mutex' = h
    /\ hpc' = [hpc EXCEPT ![h] = "db"]
    /\ hres' = [hres EXCEPT ![h].queried = TRUE]
    /\ UNCHANGED <<auth_token, hreq, svr, defs, registered>>
    /\ UNCHANGED <<dvars, gvars, evars, uvars>>

\* db.query returns, the response is set, and the handler returns; the
\* lock_guard of /query releases the mutex.
HttpQueryReturn(h) ==
    /\ hpc[h] = "db"
    /\ Respond(h, 200)
    /\ query_mutex' = IF query_mutex = h THEN Free ELSE query_mutex
    /\ UNCHANGED <<auth_token, hreq, svr, defs, registered>>
    /\ UNCHANGED <<dvars, gvars, evars, uvars>>

\* The detached thread of /shutdown: sleep_for(100ms); svr.stop();
HttpStop ==
    /\ svr = "stopping"
    /\ svr' = "stopped"
    /\ UNCHANGED <<auth_token, query_mutex, hpc, hreq, hres, defs, registered>>
    /\ UNCHANGED <<dvars, gvars, evars, uvars>>

\* No HTTP server.
HParked ==
    /\ auth_token = ""
    /\ query_mutex = Free
    /\ hpc = [h \in HandlerThreads |-> "idle"]
    /\ hreq = [h \in HandlerThreads |-> NoRequest]
    /\ hres = [h \in HandlerThreads |-> NoResponse]
    /\ svr = "stopped"

\* run_http_mode up to http_server.run(), with or without --token.
HInit ==
    /\ auth_token \in {"", "secret"}
    /\ query_mutex = Free
    /\ hpc = [h \in HandlerThreads |-> "idle"]
    /\ hreq = [h \in HandlerThreads |-> NoRequest]
    /\ hres = [h \in HandlerThreads |-> NoResponse]
    /\ svr = "running"

(***************************************************************************)
(* execute_sql: the QueryResult built by the callback of db_.exec.         *)
(***************************************************************************)
\* Statements in one SQL text.
MaxStatements == 2

\* Columns of a statement's result set.
MaxWidth == 2

\* Rows of a statement's result set.
MaxRows == 2

\* A statement as the engine runs it: the width of its result set, the
\* rows it yields, and whether it fails (before any row).
Statements ==
    [width : 1..MaxWidth, nrows : 0..MaxRows, fails : BOOLEAN]

RECURSIVE TextsOfLen(_)
TextsOfLen(n) ==
    IF n = 0 THEN {<<>>}
    ELSE {Append(t, st) : t \in TextsOfLen(n - 1), st \in Statements}

SqlTexts == UNION {TextsOfLen(n) : n \in 1..MaxStatements}

\* Context ctx{ &result, true }
NewContext == [columns |-> <<>>, rows |-> <<>>, first_row |-> TRUE]

\* The callback given to db_.exec, called with one row of argc values:
\* the column names are taken on the first call only, the row always.
callback(ctx, argc) ==
    [columns   |-> IF ctx.first_row
                   THEN ctx.columns \o [i \in 1..argc |-> "col"]
                   ELSE ctx.columns,
     rows      |-> Append(ctx.rows, [i \in 1..argc |-> "value"]),
     first_row |-> FALSE]

RECURSIVE callback_times(_, _, _)
callback_times(ctx, argc, n) ==
    IF n = 0 THEN ctx ELSE callback_times(callback(ctx, argc), argc, n - 1)

\* db_.exec(sql, callback, &ctx): the statements of the text are run in
\* order, the callback is called for each row of each, and the first
\* statement that fails ends the run.
RECURSIVE exec_from(_, _, _)
exec_from(text, i, ctx) ==
    IF i > Len(text) THEN [ctx |-> ctx, kind |-> "ok"]
    ELSE IF text[i].fails THEN [ctx |-> ctx, kind |-> "sqlerr"]
    ELSE exec_from(text, i + 1,
                   callback_times(ctx, text[i].width, text[i].nrows))

\* execute_sql on a text: the QueryResult it returns.
execute_sql_text(text) ==
    LET run == exec_from(text, 1, NewContext)
        r   == execute_sql(run.kind).result
    IN  [success |-> r.success, error |-> r.error,
         columns |-> run.ctx.columns, rows |-> run.ctx.rows]

NoResult == [done |-> FALSE, success |-> FALSE, error |-> "",
             columns |-> <<>>, rows |-> <<>>]

\* The worker executes the text of a job.
ExecuteText ==
    /\ ~qresult.done
    /\ LET r == execute_sql_text(sqltext)
       IN  qresult' = [done |-> TRUE, success |-> r.success, error |-> r.error,
                       columns |-> r.columns, rows |-> r.rows]
    /\ UNCHANGED <<sqltext, defs, registered, hvars, uvars>>
    /\ UNCHANGED <<dvars, gvars>>

\* No text is executed.
EParked == sqltext = <<>> /\ qresult = NoResult

\* A text to execute.
EInit == sqltext \in SqlTexts /\ qresult = NoResult

(***************************************************************************)
(* PdbSession (pdb_session.hpp)                                            *)
(*                                                                         *)
(* The three CComPtr members are modelled by whether they hold an          *)
(* interface.  DIA decides at which step of open() a call fails.           *)
(***************************************************************************)
Sessions == {"s1", "s2"}

Paths == {"a.pdb", "b.pdb"}

\* The steps of open() that ask DIA: CoCreateInstance, loadDataFromPdb,
\* openSession, get_globalScope.  0: none of them fails.
OpenSteps == 1..4

\* PdbSession() = default
NewSession ==
    [source_ |-> FALSE, session_ |-> FALSE, global_ |-> FALSE,
     path_ |-> "", last_error_ |-> ""]

\* PdbSession::close
PdbSession_close(s) ==
    [s EXCEPT !.global_ = FALSE, !.session_ = FALSE, !.source_ = FALSE,
              !.path_ = ""]

\* What open() leaves and returns.
Opened(s, r) == [s |-> s, ret |-> r]

\* PdbSession::open when the step fails of DIA fails (0: none): a failed
\* call leaves its result pointer null, a successful one sets it.
PdbSession_open(s, pdb_path, fails) ==
    LET s0 == PdbSession_close(s)
        s1 == [s0 EXCEPT !.source_ = TRUE]
        s3 == [s1 EXCEPT !.session_ = TRUE]
        s4 == [s3 EXCEPT !.global_ = TRUE]
    IN  IF fails = 1
        THEN Opened([s0 EXCEPT !.last_error_ = "Failed to create DiaSource"],
                    FALSE)
        ELSE IF fails = 2
        THEN Opened([s1 EXCEPT !.last_error_ =
                                   "Failed to load PDB: " \o pdb_path], FALSE)
        ELSE IF fails = 3
        THEN Opened([s1 EXCEPT !.last_error_ = "Failed to open session"],
                    FALSE)
        ELSE IF fails = 4
        THEN Opened([s3 EXCEPT !.last_error_ = "Failed to get global scope"],
                    FALSE)
        ELSE Opened([s4 EXCEPT !.path_ = pdb_path], TRUE)

\* PdbSession::is_open
is_open(s) == s.session_

\* PdbSession::path
path(s) == s.path_

\* No open() or close() was called yet.
NeverCalled == [op |-> "none", ret |-> FALSE, fails |-> 0]

\* session.open(pdb_path), DIA failing at the step fails.
Open(x, pdb_path, fails) ==
    /\ LET o == PdbSession_open(sess[x], pdb_path, fails)
       IN  /\ sess' = [sess EXCEPT ![x] = o.s]
           /\ lastcall' = [lastcall EXCEPT ![x] =
                  [op |-> "open", ret |-> o.ret, fails |-> fails]]
    /\ UNCHANGED <<dvars, gvars, defs, registered, hvars, evars>>
    /\ UNCHANGED <<cvars, tvars, ivars>>

\* session.close()
Close(x) ==
    /\ sess' = [sess EXCEPT ![x] = PdbSession_close(@)]
    /\ lastcall' = [lastcall EXCEPT ![x] =
           [op |-> "close", ret |-> FALSE, fails |-> 0]]
    /\ UNCHANGED <<dvars, gvars, defs, registered, hvars, evars>>
    /\ UNCHANGED <<cvars, tvars, ivars>>

\* The sessions as constructed.
PInit ==
    /\ sess = [x \in Sessions |-> NewSession]
    /\ lastcall = [x \in Sessions |-> NeverCalled]

(***************************************************************************)
(* The ranges of the sections table (SectionGenerator::build).             *)
(*                                                                         *)
(* RVAs and lengths are small numbers: no sum comes near 2^32, where the   *)
(* DWORD arithmetic of build() would wrap.                                 *)
(***************************************************************************)
\* The largest RVA and the largest length of a contribution.
MaxRva == 2

\* A section contribution: get_addressSection, get_relativeVirtualAddress,
\* get_length.
Contribs ==
    [sec_num : 1..MaxSections, rva : 0..MaxRva, len : 1..MaxRva]

RECURSIVE ContribSeqs(_)
ContribSeqs(n) ==
    IF n = 0 THEN {<<>>}
    ELSE {Append(q, c) : q \in ContribSeqs(n - 1), c \in Contribs}

\* A CachedSection, as far as its range goes.
CachedSection(sec_num, rva, len) ==
    [section_number |-> sec_num, rva |-> rva, length |-> len]

\* The body of the while loop of build() for the contribution c:
\* sections.emplace(sec_num, ...); an inserted section takes the rva and
\* length of c, a section already there has its length raised when c ends
\* beyond it.
contribute(sections, c) ==
    IF c.sec_num \notin DOMAIN sections
    THEN [n \in DOMAIN sections \cup {c.sec_num} |->
             IF n = c.sec_num THEN CachedSection(c.sec_num, c.rva, c.len)
             ELSE sections[n]]
    ELSE LET cs == sections[c.sec_num]
             end == c.rva + c.len
             cur_end == cs.rva + cs.length
         IN  IF end > cur_end
             THEN [sections EXCEPT ![c.sec_num].length = end - cs.rva]
             ELSE sections

\* The while loop of build() over the contributions left.
RECURSIVE contribute_all(_, _)
contribute_all(sections, cs) ==
    IF cs = <<>> THEN sections
    ELSE contribute_all(contribute(sections, Head(cs)), Tail(cs))

\* SectionGenerator::build from the contributions on: the map filled in
\* the order of enumeration, copied to sections_ and sorted by
\* section_number.
SectionGenerator_build(cs) ==
    LET sections == contribute_all(<<>>, cs)
        order == SortedSeq(DOMAIN sections)
    IN  [i \in 1..Len(order) |-> sections[order[i]]]

\* The first next() of a scan of sections: build().
Build ==
    /\ ~built
    /\ built' = TRUE
    /\ sections_' = SectionGenerator_build(contribs)
    /\ UNCHANGED contribs
    /\ UNCHANGED <<dvars, gvars, defs, registered, hvars, evars>>
    /\ UNCHANGED <<pvars, tvars, ivars>>

\* No contributions are looked at.
CParked == contribs = <<>> /\ built = FALSE /\ sections_ = <<>>

\* The SectionContribs table of a PDB, in the order DIA enumerates it.
CInitRanges ==
    /\ contribs \in UNION {ContribSeqs(k) : k \in 0..MaxContribs}
    /\ built = FALSE
    /\ sections_ = <<>>

(***************************************************************************)
(* TablePrinter (table_printer.hpp, and its copy in main.cpp)              *)
(*                                                                         *)
(* An index of widths outside its bounds is undefined behaviour: the       *)
(* process faults, or it goes on with a write that missed widths or with   *)
(* a read of some other number.                                            *)
(***************************************************************************)
\* Column names and cell texts.
ColNames == {"n", "name"}

Cells == {"x", "NULL"}

\* argv[i] and colNames[i] of the sqlite3_exec callback may be null.
NullArg == "<nullptr>"

\* The vectors handed to set_columns and add_row, and the argument arrays
\* of the callback: any length up to MaxWidth.
RECURSIVE SeqsUpTo(_, _)
SeqsUpTo(S, n) ==
    IF n = 0 THEN {<<>>}
    ELSE SeqsUpTo(S, n - 1) \cup
         {Append(q, x) : q \in SeqsUpTo(S, n - 1), x \in S}

\* TablePrinter printer;
NewPrinter == [columns |-> <<>>, rows |-> <<>>, widths |-> <<>>]

\* (std::max)(a, b)
max(a, b) == IF a >= b THEN a ELSE b

\* widths.resize(n, 0)
resize(widths, n) ==
    [i \in 1..n |-> IF i <= Len(widths) THEN widths[i] ELSE 0]

\* The widths after widths[i] = max(widths[i], texts[i].length()) for the
\* first n texts; the indexes beyond widths are dropped here and reported
\* by the caller.
widen(widths, texts, n) ==
    [i \in 1..Len(widths) |->
        IF i <= n THEN max(widths[i], Len(texts[i])) ELSE widths[i]]

\* TablePrinter::set_columns
set_columns(tp, cols) ==
    [tp EXCEPT !.columns = cols,
               !.widths = widen(resize(tp.widths, Len(cols)), cols, Len(cols))]

\* TablePrinter::add_row(const std::vector<std::string>&): the loop stops
\* at widths.size(), the row is stored whole.
add_row(tp, row) ==
    [tp EXCEPT !.widths = widen(@, row, Len(row)),
               !.rows = Append(@, row)]

\* argv[i] ? argv[i] : "NULL"
ValueText(a) == IF a = NullArg THEN "NULL" ELSE a

\* colNames[i] ? colNames[i] : ""
NameText(a) == IF a = NullArg THEN "" ELSE a

\* TablePrinter::add_row(int argc, char** argv, char** colNames): the
\* printer it leaves when every widths[i] is in bounds or the write
\* outside misses widths, and whether widths[i] was indexed with
\* i >= widths.size().
add_row_argv(tp, argv, colNames) ==
    LET argc == Len(argv)
        tp1 == IF tp.columns = <<>>
               THEN LET cols == [i \in 1..argc |-> NameText(colNames[i])]
                    IN  [tp EXCEPT !.columns = cols,
                                   !.widths = widen(resize(@, argc), cols,
                                                    argc)]
               ELSE tp
        row == [i \in 1..argc |-> ValueText(argv[i])]
    IN  [tp |-> [tp1 EXCEPT !.widths = widen(@, row, argc),
                            !.rows = Append(@, row)],
         outside |-> argc > Len(tp1.widths)]

\* What widths[i] reads outside the bounds of widths.
GarbageWidths == {0, 1}

\* The lines print() writes for the rows, a cell with the width it is
\* padded to: widths[i], or w for an i outside widths.
RowLines(tp, w) ==
    [r \in 1..Len(tp.rows) |->
        [i \in 1..Len(tp.rows[r]) |->
            [text |-> tp.rows[r][i],
             width |-> IF i <= Len(tp.widths) THEN tp.widths[i] ELSE w]]]

\* TablePrinter::print: nothing without columns; the separator from
\* widths, the header, the rows and the count.
print(tp, w) ==
    IF tp.columns = <<>> THEN <<>>
    ELSE <<[sep |-> [i \in 1..Len(tp.widths) |-> tp.widths[i] + 2],
            header |-> [i \in 1..Len(tp.columns) |->
                           [text |-> tp.columns[i], width |-> tp.widths[i]]],
            rows |-> RowLines(tp, w),
            count |-> Len(tp.rows)]>>

\* print() reads widths[i] for an i outside widths.
print_outside(tp) ==
    /\ tp.columns # <<>>
    /\ \E r \in 1..Len(tp.rows) : Len(tp.rows[r]) > Len(tp.widths)

\* printer.set_columns(cols)
SetColumns(cols) ==
    /\ ~faulted
    /\ printer' = set_columns(printer, cols)
    /\ UNCHANGED <<out, oob, faulted>>
    /\ UNCHANGED <<dvars, gvars, defs, registered, hvars, evars>>
    /\ UNCHANGED <<pvars, cvars, ivars>>

\* printer.add_row(row), as print_remote_result calls it
AddRow(row) ==
    /\ ~faulted
    /\ Len(printer.rows) < MaxRows
    /\ printer' = add_row(printer, row)
    /\ UNCHANGED <<out, oob, faulted>>
    /\ UNCHANGED <<dvars, gvars, defs, registered, hvars, evars>>
    /\ UNCHANGED <<pvars, cvars, ivars>>

\* table_callback: g_printer->add_row(argc, argv, colNames)
AddRowArgv(argv, colNames) ==
    /\ ~faulted
    /\ Len(printer.rows) < MaxRows
    /\ LET a == add_row_argv(printer, argv, colNames)
       IN  \/ /\ printer' = a.tp
              /\ oob' = (oob \/ a.outside)
              /\ faulted' = faulted
           \/ /\ a.outside
              /\ printer' = printer
              /\ oob' = TRUE
              /\ faulted' = TRUE
    /\ UNCHANGED out
    /\ UNCHANGED <<dvars, gvars, defs, registered, hvars, evars>>
    /\ UNCHANGED <<pvars, cvars, ivars>>

\* printer.print()
PrintTable ==
    /\ ~faulted
    /\ out = <<>>
    /\ \/ /\ \E w \in GarbageWidths : out' = print(printer, w)
          /\ oob' = (oob \/ print_outside(printer))
          /\ faulted' = faulted
       \/ /\ print_outside(printer)
          /\ out' = out
          /\ oob' = TRUE
          /\ faulted' = TRUE
    /\ UNCHANGED printer
    /\ UNCHANGED <<dvars, gvars, defs, registered, hvars, evars>>
    /\ UNCHANGED <<pvars, cvars, ivars>>

\* A printer as constructed, nothing printed.
TInit == printer = NewPrinter /\ out = <<>> /\ oob = FALSE /\ faulted = FALSE

(***************************************************************************)
(* The interactive loops (main.cpp interactive_mode without the AI agent,  *)
(* remote_mode.cpp).                                                       *)
(*                                                                         *)
(* A line is a sequence of pieces: the characters the loops look at, and   *)
(* words of other characters.  A statement is the pieces of its lines.     *)
(***************************************************************************)
\* The pieces of a line, at most.
MaxLineLen == 2

Blanks == {" ", "\t"}

Pieces == {".", "quit", "schema", "a", ";", " "}

\* What std::getline can hand over.
Lines == SeqsUpTo(Pieces, MaxLineLen)

\* What a pass through the loop did with the line it read, the buffer it
\* found and the text it ran; kind is one of none, eof, skip, quit,
\* command, unknown, accumulate, execute.
Event(kind, line, before, text) ==
    [kind |-> kind, line |-> line, before |-> before, text |-> text]

NoEvent == Event("none", <<>>, <<>>, <<>>)

\* A mistaken scan: the last character, blank or not.
last_char(line, last) == last

\* while (last > 0 && (line[last] == ' ' || line[last] == '\t')) last--;
\* with indexes from 1.
RECURSIVE skip_blanks(_, _)
skip_blanks(line, last) ==
    IF last > 1 /\ line[last] \in Blanks THEN skip_blanks(line, last - 1)
    ELSE last

\* The dot-commands of the loop: .quit and .exit, .tables, .help, and
\* .schema in local mode only; here .quit and .schema, any other line is
\* an unknown command.
DotCommand(m, line) ==
    IF line = <<".", "quit">> THEN "quit"
    ELSE IF line = <<".", "schema">> /\ m = "local" THEN "command"
    ELSE "unknown"

\* The query .schema runs: its own text, not the buffer.
SchemaQuery == <<"SELECT sql FROM sqlite_master WHERE type='table'">>

\* One pass through the while (true) loop for the line read: the buffer
\* and the event it leaves, and whether the loop goes on.
interactive_pass(m, buf, line) ==
    IF line = <<>>
    THEN [stmt |-> buf, go |-> TRUE, event |-> Event("skip", line, buf, <<>>)]
    ELSE IF buf = <<>> /\ line[1] = "."
    THEN LET k == DotCommand(m, line)
         IN  [stmt |-> buf, go |-> k # "quit",
              event |-> Event(k, line, buf,
                              IF k = "command" THEN SchemaQuery ELSE <<>>)]
    ELSE LET acc == buf \o line \o <<" ">>
             last == skip_blanks(line, Len(line))
         IN  IF line[last] = ";"
             THEN [stmt |-> <<>>, go |-> TRUE,
                   event |-> Event("execute", line, buf, acc)]
             ELSE [stmt |-> acc, go |-> TRUE,
                   event |-> Event("accumulate", line, buf, <<>>)]

\* std::getline hands over a line (to a buffer of one line at most: the
\* statements looked at have up to two lines).
ReadLine(line) ==
    /\ running
    /\ Len(stmt) <= MaxLineLen + 1
    /\ LET p == interactive_pass(mode, stmt, line)
       IN  /\ stmt' = p.stmt
           /\ running' = p.go
           /\ event' = p.event
    /\ UNCHANGED mode
    /\ UNCHANGED <<dvars, gvars, defs, registered, hvars, evars>>
    /\ UNCHANGED <<pvars, cvars, tvars>>

\* std::getline fails: break.
EndOfInput ==
    /\ running
    /\ running' = FALSE
    /\ event' = Event("eof", <<>>, stmt, <<>>)
    /\ UNCHANGED <<mode, stmt>>
    /\ UNCHANGED <<dvars, gvars, defs, registered, hvars, evars>>
    /\ UNCHANGED <<pvars, cvars, tvars>>

\* No interactive loop runs.
IParked ==
    mode = "local" /\ stmt = <<>> /\ running = FALSE /\ event = NoEvent

\* One of the two loops is entered: std::string line; std::string stmt;
IInit ==
    /\ mode \in {"local", "remote"}
    /\ stmt = <<>>
    /\ running = TRUE
    /\ event = NoEvent

\* The command line's objects as constructed, no contributions looked at,
\* no interactive loop.
UParked == PInit /\ CParked /\ TInit /\ IParked

\* No registry is looked at.
RParked == defs = <<>> /\ registered = <<>>

\* No registry, no HTTP server, no text executed.
SInit == RParked /\ HParked /\ EParked /\ UParked

(***************************************************************************)
(* A query on one table: a full scan to its end, then a scan through one   *)
(* of the table's filters.                                                 *)
(***************************************************************************)
\* No cursor is open (the state of the generator side while only the
\* dispatcher is looked at).
GParked ==
    /\ pdb = ClosedPdb
    /\ table = "functions"
    /\ phase = "idle"
    /\ iter = NullIterator
    /\ scanned = <<>>
    /\ filt = NoFilter
    /\ filtered = <<>>
    /\ cur = NoCursors
    /\ call = NoCall

\* A registry over a session, and a table to query.
GInit ==
    /\ \E t \in Tables : \E p \in Pdbs(t) : table = t /\ pdb = p
    /\ phase = "idle"
    /\ iter = NullIterator
    /\ scanned = <<>>
    /\ filt = NoFilter
    /\ filtered = <<>>
    /\ cur = NoCursors
    /\ call = NoCall

\* A cursor with no usable constraint: the table's generator factory.
OpenScan ==
    /\ phase = "idle"
    /\ iter' = NewIterator(TableGenerator(table))
    /\ phase' = "scan"
    /\ UNCHANGED <<pdb, table, scanned, filt, filtered, cur, call>>
    /\ UNCHANGED <<dvars, svars>>

\* One step of the full scan.
ScanNext ==
    /\ phase = "scan"
    /\ LET it == GeneratorRowIterator_next(iter)
       IN  /\ iter' = it
           /\ scanned' = IF it.eof_ THEN scanned ELSE Append(scanned, ReadRow(it))
           /\ phase' = IF it.eof_ THEN "scanned" ELSE "scan"
    /\ UNCHANGED <<pdb, table, filt, filtered, cur, call>>
    /\ UNCHANGED <<dvars, svars>>

\* A cursor with the constraint c = val, through the filter on column c.
OpenFilter(c, val) ==
    /\ phase = "scanned"
    /\ \/ /\ c \in IntFilterCols(table)
          /\ val.type = "integer"
          /\ iter' = IntFilter(table, val)
       \/ /\ c \in TextFilterCols(table)
          /\ val.type = "text"
          /\ iter' = TextFilter(table, val)
    /\ filt' = [col |-> c, val |-> val]
    /\ phase' = "filter"
    /\ UNCHANGED <<pdb, table, scanned, filtered, cur, call>>
    /\ UNCHANGED <<dvars, svars>>

\* One step of the filtered scan.
FilterNext ==
    /\ phase = "filter"
    /\ LET it == GeneratorRowIterator_next(iter)
       IN  /\ iter' = it
           /\ filtered' = IF it.eof_ THEN filtered ELSE Append(filtered, ReadRow(it))
           /\ phase' = IF it.eof_ THEN "filtered" ELSE "filter"
    /\ UNCHANGED <<pdb, table, scanned, filt, cur, call>>
    /\ UNCHANGED <<dvars, svars>>


(***************************************************************************)
(* The dispatcher's specification.                                         *)
(***************************************************************************)
CallerStep(t) ==
    \/ RunPush(t)
    \/ RunNotify(t)
    \/ RunGet(t)

WorkerStep(w) ==
    \/ WorkerLock(w)
    \/ WorkerWait(w)
    \/ WorkerExit(w)
    \/ \E k \in SqlKinds : WorkerPop(w, k)
    \/ WorkerFinish(w)

DtorStep ==
    \/ DtorStop
    \/ DtorNotify
    \/ DtorJoin

\* Everything but the start of a new call.
Serve ==
    \/ \E t \in Callers : CallerStep(t)
    \/ \E t \in Callers : RunAfterDestroy(t)
    \/ \E w \in Workers : WorkerStep(w)
    \/ \E w \in Workers : WorkerSpuriousWake(w)
    \/ DtorLock
    \/ DtorStep

Next ==
    \/ \E t \in Callers : RunLock(t, MaxJobs)
    \/ Serve

\* The dispatcher as constructed, no query cursor open.
Init == DInit /\ GParked /\ SInit

Spec == Init /\ [][Next]_vars

FairNext ==
    \/ \E t \in Callers : RunLock(t, MaxFairJobs)
    \/ Serve

\* Threads that have work to do are scheduled; nobody is obliged to call
\* run() or to destroy the dispatcher, and no wake-up is owed without a
\* notification.
Fairness ==
    /\ \A t \in Callers : WF_vars(CallerStep(t))
    /\ \A w \in Workers : WF_vars(WorkerStep(w))
    /\ WF_vars(DtorStep)

FairSpec == Init /\ [][FairNext]_vars /\ Fairness

(***************************************************************************)
(* The specification of a query on a table.                                *)
(***************************************************************************)
FilterCols == {"id", "name", "udt_id", "udt_name", "enum_id", "enum_name",
               "derived_id", "func_id", "compiland_id"}

FilterValues == {IntValue(i) : i \in FilterIds} \cup {TextValue(s) : s \in Names}

GenNext ==
    \/ OpenScan
    \/ ScanNext
    \/ \E c \in FilterCols : \E val \in FilterValues : OpenFilter(c, val)
    \/ FilterNext

\* An idle dispatcher, and a table to query.
GenInit == DInit /\ GInit /\ SInit

GenSpec == GenInit /\ [][GenNext]_vars

(***************************************************************************)
(* One cursor on one table, opened with any plan and called in any order.  *)
(***************************************************************************)
CursorPdbs(t) == PdbsUpTo(t, MaxCurSyms, MaxContribs) \cup FailingPdbs(t)

CInit ==
    /\ \E t \in Tables : \E p \in CursorPdbs(t) : table = t /\ pdb = p
    /\ phase = "idle"
    /\ iter = NullIterator
    /\ scanned = <<>>
    /\ filt = NoFilter
    /\ filtered = <<>>
    /\ cur = NoCursors
    /\ call = NoCall

CursorInit == DInit /\ CInit /\ SInit

CursorStep ==
    \/ \E plan \in Plans(table) : CursorFilter(1, plan)
    \/ CursorNext(1)
    \/ \E col \in ColumnNames \cup {OutOfRange} : CursorColumn(1, col)
    \/ CursorRowid(1)
    \/ CursorClose(1)

CursorSpec == CursorInit /\ [][CursorStep]_vars

(***************************************************************************)
(* A full scan of a table of a PDB in which get_name fails on some records *)
(***************************************************************************)
UnnamedPdbs(t) ==
    UNION {{Unname(p, S) : S \in SUBSET (1..Len(p.syms))} :
              p \in PdbsUpTo(t, MaxCurSyms, MaxContribs) \ {ClosedPdb}}

XInit ==
    /\ \E t \in Tables : \E p \in UnnamedPdbs(t) : table = t /\ pdb = p
    /\ phase = "idle"
    /\ iter = NullIterator
    /\ scanned = <<>>
    /\ filt = NoFilter
    /\ filtered = <<>>
    /\ cur = NoCursors
    /\ call = NoCall

ExtractInit == DInit /\ XInit /\ SInit

ExtractStep ==
    \/ CursorFilter(1, ScanPlan)
    \/ CursorNext(1)
    \/ \E col \in ColumnNames : CursorColumn(1, col)

ExtractSpec == ExtractInit /\ [][ExtractStep]_vars

(***************************************************************************)
(* Two cursors on one table, each a full scan stepped to its end.          *)
(***************************************************************************)
\* xNext as the engine calls it: not past the end of the scan.
ScanStep(c) ==
    /\ cur[c].last_ret # "false"
    /\ CursorNext(c)

TwoInit == DInit /\ CInit /\ SInit

TwoStep ==
    \E c \in CursorIds :
        \/ CursorFilter(c, ScanPlan)
        \/ ScanStep(c)
        \/ CursorClose(c)

TwoSpec == TwoInit /\ [][TwoStep]_vars

(***************************************************************************)
(* A query planned from its constraints, then executed.                    *)
(***************************************************************************)
PlanInit == DInit /\ CInit /\ SInit

PlanStep ==
    \/ \E cons \in ConstraintSets(table) : xBestIndex(cons)
    \/ PlannedFilter
    \/ CursorNext(1)

PlanSpec == PlanInit /\ [][PlanStep]_vars

(***************************************************************************)
(* A registry that is registered and then queried: plans are chosen and    *)
(* executed, rows are read.                                                *)
(***************************************************************************)
RegInit == DInit /\ CInit /\ RInit /\ HParked /\ EParked /\ UParked

\* The tables exist in the database once they are registered.
Queryable == registered # <<>>

RegStep ==
    \/ register_all
    \/ Queryable /\ \E c \in Constraints(table) : xBestIndex({c})
    \/ Queryable /\ PlannedFilter
    \/ Queryable /\ CursorNext(1)
    \/ Queryable /\ \E col \in ColumnNames \cup {OutOfRange} : CursorColumn(1, col)

RegSpec == RegInit /\ [][RegStep]_vars

(***************************************************************************)
(* Statements that name their columns: SELECT ... FROM t WHERE col = v.    *)
(***************************************************************************)
\* The columns a WHERE clause names: those the documentation of locals and
\* parameters gives, those the tables declare, and one with no filter.
WhereCols == {"function_id", "func_id", "function_name", "func_name", "id", "name"}

WhereValue(c) ==
    IF c \in {"function_name", "func_name", "name"} THEN TextValue("a")
    ELSE IntValue(1)

\* The statement is prepared against the table as registered: a column the
\* table does not declare fails the statement (rc != SQLITE_OK, "no such
\* column"), and nothing is planned or run; else the engine offers the
\* equality constraint to the table.
PrepareWhere(c) ==
    IF find_column(defs[table].columns, c) < 0
    THEN /\ ~call.fault
         /\ call' = [NoCall EXCEPT
                        !.op = "no such column", !.c = 1,
                        !.cons = {[col |-> c, op |-> "=", val |-> WhereValue(c)]}]
         /\ UNCHANGED <<pdb, table, phase, iter, scanned, filt, filtered, cur>>
         /\ UNCHANGED <<dvars, svars>>
    ELSE xBestIndex({[col |-> c, op |-> "=", val |-> WhereValue(c)]})

WhereInit == DInit /\ CInit /\ RInit /\ HParked /\ EParked /\ UParked

WhereStep ==
    \/ \E c \in WhereCols : PrepareWhere(c)
    \/ PlannedFilter
    \/ CursorNext(1)

WhereSpec == WhereInit /\ [][WhereStep]_vars

(***************************************************************************)
(* HTTP mode: requests with any headers, one at a time; and requests       *)
(* handled by two threads at once.                                         *)
(***************************************************************************)
\* What a client may put in the two headers.
XTokenHeaders == {NoHeader} \cup {Header("", v) : v \in {"", "secret", "wrong"}}

AuthorizationHeaders ==
    {NoHeader} \cup {Header(p, v) : p \in {"Bearer ", "Basic "}, v \in {"secret", "wrong"}}

Requests ==
    {Request(p, x, a, b) : p \in Routes, x \in XTokenHeaders,
                           a \in AuthorizationHeaders, b \in {"", "SELECT 1"}}

\* Requests that pass the check of the token.
AcceptedRequests ==
    {Request(p, x, NoHeader, "SELECT 1") :
        p \in {"/query", "/status", "/health"}, x \in {Header("", "secret")}}

HttpInit == DInit /\ GParked /\ RParked /\ HInit /\ EParked /\ UParked

HttpStep ==
    \/ \E req \in Requests : HttpAccept("h1", req)
    \/ HttpHandler("h1")
    \/ HttpQueryLock("h1")
    \/ HttpQueryReturn("h1")
    \/ HttpStop

HttpSpec == HttpInit /\ [][HttpStep]_vars

ThreadsInit == DInit /\ GParked /\ RParked /\ HInit /\ EParked /\ UParked

ThreadsStep ==
    \/ \E h \in HandlerThreads : \E req \in AcceptedRequests : HttpAccept(h, req)
    \/ \E h \in HandlerThreads : HttpHandler(h)
    \/ \E h \in HandlerThreads : HttpQueryLock(h)
    \/ \E h \in HandlerThreads : HttpQueryReturn(h)

ThreadsSpec == ThreadsInit /\ [][ThreadsStep]_vars

(***************************************************************************)
(* execute_sql on any text.                                                *)
(***************************************************************************)
ExecInit == DInit /\ GParked /\ RParked /\ HParked /\ EInit /\ UParked

ExecStep == ExecuteText

ExecSpec == ExecInit /\ [][ExecStep]_vars

(***************************************************************************)
(* Properties of the dispatcher.                                           *)
(***************************************************************************)
Resolved(j) == promise[j].state # "pending"

Running(j) == \E w \in Workers : wjob[w] = j

\* The worker has executed j and is done with it.
Served(j) == execCount[j] >= 1 /\ ~Running(j)

\* C1: with any number of threads inside run(), db_.exec is only ever entered
\* by the one worker thread, and at most one statement is inside db_.exec at
\* any instant.
C1_OneStatementOnWorker ==
    /\ Cardinality(inDb) <= 1
    /\ Cardinality(dbThreads) <= 1
    /\ dbThreads \subseteq Workers
    /\ \A e \in inDb : e[1] \in dbThreads /\ e[1] \notin Callers /\ e[1] # DtorThread

\* A statement is running while both callers are inside run() and a job waits
\* in the queue.
C1_Witness ==
    /\ inDb # {}
    /\ queue_ # <<>>
    /\ \A t \in Callers : pc[t] # "idle"

\* C2: if the enqueue step of run(J1) completed before that of run(J2) began,
\* J1 is dequeued no later than J2 and resolved no later than J2, and J2 is
\* never ahead of J1 in the queue.
C2_Fifo ==
    \A j1, j2 \in Jobs :
        j1 \in enqBefore[j2] =>
            /\ execCount[j2] >= 1 => execCount[j1] >= 1
            /\ Resolved(j2) => Resolved(j1)
            /\ \A a, b \in 1..Len(queue_) :
                   (queue_[a] = j1 /\ queue_[b] = j2) => a < b

\* Two calls from different threads, the first enqueued before the second,
\* both executed by the worker and both callers still in future.get().
C2_Witness ==
    \E t1, t2 \in Callers :
        /\ t1 # t2
        /\ pc[t1] = "get" /\ pc[t2] = "get"
        /\ cjob[t1] \in enqBefore[cjob[t2]]
        /\ Served(cjob[t1]) /\ Served(cjob[t2])
        /\ Resolved(cjob[t1]) /\ Resolved(cjob[t2])

\* C3: a job is executed at most once, its promise receives at most one
\* outcome and exactly one once the worker is done with it, and a resolved
\* job keeps its outcome and is never again in the queue or in a worker's
\* hands.
C3_ExactlyOnce ==
    /\ [](\A j \in Jobs :
            /\ execCount[j] <= 1
            /\ setCount[j] <= 1
            /\ Resolved(j) <=> setCount[j] = 1
            /\ Served(j) => Resolved(j)
            /\ ret[j] # "none" => Resolved(j))
    /\ [][\A j \in Jobs :
            Resolved(j) =>
                /\ promise'[j] = promise[j]
                /\ ~InQueue(queue_', j)
                /\ \A w \in Workers : wjob'[w] # j]_vars

\* One job completed, one job failed, and the worker is executing a third.
C3_Witness ==
    \E j1, j2, j3 \in Jobs :
        /\ promise[j1].state = "value" /\ execCount[j1] = 1
        /\ promise[j2].state = "exception" /\ execCount[j2] = 1
        /\ Running(j3)

\* C4: as long as the dispatcher is live (its destructor has not begun),
\* every run() whose job was enqueued eventually returns to its caller,
\* whether the worker was blocked in cv_.wait or busy with another job when
\* the job was pushed.
C4_EveryRunReturns ==
    \A j \in Jobs : (j \in pushed) ~> (ret[j] # "none" \/ dpc # "alive")

\* A job sits in the queue while the worker is blocked in cv_.wait (the
\* notification is still to come), after an earlier call has returned.
C4_Witness ==
    /\ \E w \in Workers : wpc[w] = "waiting"
    /\ queue_ # <<>>
    /\ dpc = "alive"
    /\ \E j \in Jobs : ret[j] # "none"

\* C5: a job enqueued before the destructor sets stop_ is eventually
\* resolved, and the worker leaves its loop only when it sees stop_ set and
\* the queue empty.
C5_ShutdownDrains ==
    /\ \A j \in Jobs : (j \in pushed /\ j \notin late) ~> Resolved(j)
    /\ [][\A w \in Workers :
            (wpc[w] # "exited" /\ wpc'[w] = "exited") =>
                (stop_ /\ queue_ = <<>>)]_vars

\* The worker has exited after resolving a job that was still queued when
\* stop_ was set.
C5_Witness ==
    /\ stop_
    /\ \A w \in Workers : wpc[w] = "exited"
    /\ \E j \in atStop : Resolved(j) /\ j \notin late

IsFailure(p) == p.state = "exception" \/ (p.state = "value" /\ ~p.success)

\* C6 as stated: a job that was queued and unprocessed when shutdown was
\* signalled is resolved with a failure.
C6_QueuedAtStopAreFailed ==
    \A j \in atStop : Resolved(j) => IsFailure(promise[j])

\* What serving a statement of kind k leaves in the promise.
OwnOutcome(p, k) ==
    /\ k = "ok" => p.state = "value" /\ p.success
    /\ k = "sqlerr" => p.state = "value" /\ ~p.success
    /\ k = "throw" => p.state = "exception"

\* C6 amended: a job that was queued and unprocessed when shutdown was
\* signalled is still dequeued and executed by the worker, and its promise is
\* resolved with its own statement's outcome; it is neither failed nor
\* dropped.
C6_QueuedAtStopAreServed ==
    /\ \A j \in Jobs : (j \in atStop) ~> Resolved(j)
    /\ [](\A j \in atStop :
            Resolved(j) => (execCount[j] = 1 /\ OwnOutcome(promise[j], sql[j])))

\* A job queued at shutdown was executed afterwards and completed
\* successfully.
C6_Witness ==
    \E j \in atStop : promise[j].state = "value" /\ promise[j].success

WorkerAlive == \A w \in Workers : wpc[w] # "crashed" /\ (wpc[w] = "exited" => stop_)

\* C7: a statement for which db_.exec returns a code other than SQLITE_OK
\* reaches the caller of run() as a QueryResult with success = false and a
\* non-empty error, not as a thrown fault; the worker stays in its loop and
\* a statement served afterwards gets its own successful result.
C7_SqlErrorIsResult ==
    /\ \A j \in Jobs :
         (Served(j) /\ sql[j] = "sqlerr") =>
             /\ promise[j].state = "value"
             /\ ~promise[j].success
             /\ promise[j].error # ""
             /\ ret[j] \in {"none", "result"}
    /\ \A j \in Jobs :
         (Served(j) /\ sql[j] = "ok") =>
             /\ promise[j].state = "value"
             /\ promise[j].success
             /\ promise[j].error = ""
    /\ WorkerAlive

\* A rejected statement was returned as a result, and a statement submitted
\* after it was served and returned successfully.
C7_Witness ==
    \E j1, j2 \in Jobs :
        /\ j1 \in enqBefore[j2]
        /\ sql[j1] = "sqlerr" /\ ret[j1] = "result"
        /\ sql[j2] = "ok" /\ ret[j2] = "result" /\ promise[j2].success

RowSet(rows) == {rows[i].row : i \in 1..Len(rows)}

\* C9: for every table with an equality filter on a column and every value,
\* the rows the filter's generator produces are exactly the rows of the full
\* scan of the table whose column equals the value: none extra, none
\* missing.
C9_FilterEqualsScan ==
    phase = "filtered" =>
        RowSet(filtered) =
            {r \in RowSet(scanned) : ColumnValue(r, filt.col) = filt.val}

\* C10: over the rows of one full scan of any table rowid() is strictly
\* increasing, also where the generator passes over source records.
C10_RowidIncreasing ==
    \A i, j \in 1..Len(scanned) :
        i < j => scanned[i].rowid < scanned[j].rowid

\* A finished scan of locals or parameters with two rows of one function and,
\* between them, a record the generator passed over.
C10_Witness ==
    /\ phase = "scanned"
    /\ table \in {"locals", "parameters"}
    /\ Len(scanned) >= 2
    /\ \E k \in 1..Len(pdb.syms) :
           /\ scanned[1].row.id < k
           /\ k < scanned[2].row.id
           /\ pdb.syms[k].tag = "SymTagData"
           /\ pdb.syms[k].parent = scanned[1].row.owner_id
           /\ scanned[2].row.owner_id = scanned[1].row.owner_id
           /\ pdb.syms[k].kind # iter.gen_.want_kind

(***************************************************************************)
(* Claims C11 to C20: the generators' contract, errors, laziness, plans    *)
(***************************************************************************)
\* C11: for every generator, once next() has returned false, every later
\* call of next() returns false, also when the first false came from a
\* session that is not open or from a failed lookup.
C11_NoResurrection ==
    (call.op = "next" /\ call.after_false) => (~call.ret /\ ~call.fault)

\* C12: column() calls the generator's current() only while eof() is false,
\* that is, only when the last next() of the iterator returned true, never
\* before the first successful next() nor after a next() that returned
\* false, whatever the order of the next(), column() and rowid() calls; a
\* SectionGenerator is then past its first section (idx_ >= 1).
C12_CurrentOnlyOnRow ==
    (call.op = "column" /\ call.used_current) =>
        /\ call.valid_current
        /\ ~cur[call.c].it.eof_
        /\ cur[call.c].it.gen_.cls = "SectionGenerator" =>
               cur[call.c].it.gen_.idx >= 1

\* column() is called after a next() that returned false on a cursor that
\* had a row before, and reads no record.
C12_Witness ==
    /\ call.op = "column"
    /\ cur[call.c].last_ret = "false"
    /\ cur[call.c].it.gen_.rowid >= 0
    /\ ~call.used_current
    /\ call.value = SqlNull

\* The integer of the value is not in 1..0xFFFFFFFF.
OutsideIdDomain(val) == val.hi # 0 \/ val.i = 0

\* The cursor was opened through an integer filter of the table with a
\* value outside the identifier domain.
OutsideIdCursor(c) ==
    /\ cur[c].open
    /\ cur[c].plan.kind = "filter"
    /\ cur[c].plan.col \in IntFilterCols(table)
    /\ OutsideIdDomain(cur[c].plan.val)

\* C13: on every table with an integer id filter, an equality constraint
\* with a value <= 0 or > 0xFFFFFFFF gives a cursor whose first next() (and
\* every next()) returns false, with no fault and with no generator made or
\* called, so with no call into the data source.
C13_OutOfDomainIdIsEmpty ==
    \A c \in CursorIds :
        OutsideIdCursor(c) =>
            /\ ~cur[c].it.has_gen
            /\ (call.op = "next" /\ call.c = c) =>
                   (~call.ret /\ ~call.fault /\ ~call.gen_called)

\* The first next() of a cursor opened with id = 2^32 + 1, on a PDB whose
\* symbol 1 the filter would find, has returned false.
C13_Witness ==
    /\ call.op = "next" /\ call.first /\ ~call.ret
    /\ OutsideIdCursor(call.c)
    /\ cur[call.c].plan.val = BigValue(1, 1)
    /\ pdb.open /\ ~pdb.fails
    /\ Len(pdb.syms) >= 1
    /\ pdb.syms[1].tag = TableTag(table)

\* The tag a record must have for the id filter of table t to take it.
IdKind(t) == IF t = "source_files" THEN "SourceFile" ELSE TableTag(t)

\* The id is unknown to the source, or is the id of a record of another
\* kind than the table's.
IdMatchesNothing(t, id) ==
    \/ id \notin 1..Len(pdb.syms)
    \/ pdb.syms[id].tag # IdKind(t)

\* No record of the global scope has the table's tag and the name.
NameMatchesNothing(t, nm) ==
    ~\E i \in 1..Len(pdb.syms) :
        /\ pdb.syms[i].parent = 0
        /\ pdb.syms[i].tag = TableTag(t)
        /\ pdb.syms[i].name = nm

\* The cursor was opened through a filter with a value that matches nothing.
NoMatchCursor(c) ==
    /\ cur[c].open
    /\ cur[c].plan.kind = "filter"
    /\ \/ /\ cur[c].plan.col \in IntFilterCols(table)
          /\ ~OutsideIdDomain(cur[c].plan.val)
          /\ IdMatchesNothing(table, cur[c].plan.val.i)
       \/ /\ cur[c].plan.col \in TextFilterCols(table)
          /\ NameMatchesNothing(table, cur[c].plan.val.s)

\* C14: the first next() of a filtered scan returns false, with no fault,
\* when the id of a by-id lookup is unknown to the source or is the id of a
\* symbol of another kind than the table's, and when the name of a by-name
\* lookup matches nothing.
C14_NoMatchIsEmpty ==
    (call.op = "next" /\ call.first /\ NoMatchCursor(call.c)) =>
        (~call.ret /\ ~call.fault)

\* The first next() of a by-id lookup has returned false for the id of a
\* symbol that the source holds and that is of another kind.
C14_Witness ==
    /\ call.op = "next" /\ call.first /\ ~call.ret
    /\ NoMatchCursor(call.c)
    /\ cur[call.c].it.has_gen
    /\ cur[call.c].it.gen_.cls = "SymbolByIdGenerator"
    /\ symbolById(cur[call.c].plan.val.i) # 0

\* The generators that get their one row from symbolById or findFileById
\* and ask the source for no enumerator.
SingleRowClasses ==
    {"SymbolByIdGenerator", "CompilandByIdGenerator", "SourceFileByIdGenerator"}

\* The scan of the generator begins with no open session, or on a source
\* that cannot supply the enumerator the generator needs.
SourceUnavailable(g) ==
    \/ ~pdb.open
    \/ pdb.fails /\ g.cls \notin SingleRowClasses

\* C15: when the session is not open or the source cannot supply an
\* enumerator, the first next() of every full-scan and filtered generator
\* returns false and the process does not fault: the table is empty.
C15_UnavailableSourceIsEmpty ==
    \A c \in CursorIds :
        ( /\ call.op = "next" /\ call.c = c /\ call.first /\ call.gen_called
          /\ SourceUnavailable(cur[c].it.gen_) ) =>
            (~call.ret /\ ~call.fault /\ cur[c].it.eof_)

\* The first next() of a by-id lookup of the children of a symbol has
\* returned false on a source that holds the symbol and fails to supply the
\* enumerator of its children.
C15_Witness ==
    /\ call.op = "next" /\ call.first /\ call.gen_called /\ ~call.ret
    /\ pdb.open /\ pdb.fails
    /\ cur[call.c].it.gen_.cls \in ChildrenByIdClasses
    /\ symbolById(cur[call.c].it.gen_.id) # 0
    /\ pdb.syms[cur[call.c].it.gen_.id].tag = TableTag(table)

\* The row the cursor of the last call stands on was made from a record
\* whose name the source could not supply.
OnUnnamedRecord ==
    LET id == cur[call.c].it.gen_.current.id
    IN  /\ table \notin {"line_numbers", "sections"}
        /\ cur[call.c].last_ret = "true"
        /\ id \in 1..Len(pdb.syms)
        /\ pdb.syms[id].name = Unnamed

\* C16: a failure to extract one field of a record (the source cannot
\* supply the symbol's name) makes that column of the row read as SQL NULL.
C16_FailedFieldIsNull ==
    (call.op = "column" /\ call.col = "name" /\ OnUnnamedRecord) =>
        call.value = SqlNull

\* The elements of an enumeration that come after the record id.
After(seq, id) == SelectSeq(seq, LAMBDA x : x > id)

\* Nothing of the source has been fetched past the row the generator stands
\* on: each enumerator still holds every record that comes after the one
\* the row was made from, and no row is held but the current one.
NothingAhead(g) ==
    CASE g.cls \in {"SymbolGenerator", "CompilandGenerator"} ->
             g.outer.rest = After(enum_symbols(g.tag).rest, g.current.id)
      [] g.cls = "SourceFileGenerator" ->
             g.outer.rest = After(findFile(0).rest, g.current.id)
      [] g.cls \in NestedClasses ->
             /\ g.outer.rest = After(enum_symbols(g.tag).rest, g.cur_id)
             /\ g.inner.rest =
                    After(findChildren(g.cur_id, g.child, AnyName).rest,
                          g.current.id)
      [] g.cls = "LineNumberGenerator" ->
             LET file == pdb.syms[g.current.id].parent
             IN  /\ g.outer.rest = After(enum_symbols(g.tag).rest, g.cur_id)
                 /\ g.files.rest = After(findFile(g.cur_id).rest, file)
                 /\ g.inner.rest =
                        After(findLines(g.cur_id, file).rest, g.current.id)
      [] g.cls = "SectionGenerator" -> Len(g.sections) = g.idx

\* The full scan stands on a row: the last next() returned true.
ScanOnRow == phase = "scan" /\ iter.has_gen /\ ~iter.eof_

\* C17: on every table, a full scan that has produced n rows has made n
\* next() calls on its generator (rowid_ = n - 1) and has read or built
\* nothing of the source past the n-th row.
C17_LazyOnEveryTable ==
    ScanOnRow =>
        /\ iter.gen_.rowid = Len(scanned) - 1
        /\ NothingAhead(iter.gen_)

\* The scans of every table but sections are lazy in that sense; the
\* sections generator has every row built after its first next().
LazyButSections ==
    ScanOnRow =>
        /\ iter.gen_.rowid = Len(scanned) - 1
        /\ table # "sections" => NothingAhead(iter.gen_)
        /\ table = "sections" => iter.gen_.sections = build

\* The full scan of a nested table stands on its first row with another
\* outer symbol and another child still to fetch.
LazyNestedSeen ==
    /\ ScanOnRow
    /\ Len(scanned) = 1
    /\ iter.gen_.cls \in NestedClasses
    /\ iter.gen_.outer.rest # <<>>
    /\ iter.gen_.inner.rest # <<>>

\* C18: when several declared equality filters of the table are usable for
\* the constraints, the plan uses a filter with the lowest estimated_cost
\* and, among those, the lowest estimated_row_count; on functions and the
\* other tables with an id and a name filter, that is the id filter (cost
\* 1, rows 1), not the name filter (cost 5, rows 10).
C18_CheapestFilterWins ==
    (call.op = "best_index" /\ Cardinality(Usable(table, call.cons)) >= 2) =>
        /\ call.plan.kind = "filter"
        /\ \E f \in Usable(table, call.cons) :
               /\ call.plan.col = f.col
               /\ call.cost = f.cost /\ call.rows = f.rows
               /\ \A g \in Usable(table, call.cons) :
                      /\ f.cost <= g.cost
                      /\ f.cost = g.cost => f.rows <= g.rows
        /\ ({"id", "name"} \subseteq {f.col : f \in Usable(table, call.cons)}) =>
               (call.plan.col = "id" /\ call.cost = 1 /\ call.rows = 1)

\* The plan of a query on functions with id = 1 and name = 'a' is the id
\* filter with the value 1.
C18_Witness ==
    /\ table = "functions"
    /\ call.op = "best_index"
    /\ call.cons = {[col |-> "id", op |-> "=", val |-> IntValue(1)],
                    [col |-> "name", op |-> "=", val |-> TextValue("a")]}
    /\ call.plan = FilterPlan("id", IntValue(1))

\* C19: when no declared filter applies to the constraints, the plan is the
\* unconstrained full scan, and its reported cost is the table's row-count
\* estimate, the value of its estimate_rows function.
C19_NoFilterIsFullScan ==
    (call.op = "best_index" /\ Usable(table, call.cons) = {}) =>
        /\ call.plan = ScanPlan
        /\ call.cost = estimate_rows(table)
        /\ table \in SymbolTables =>
               call.cost = Cardinality({i \in 1..Len(pdb.syms) :
                               /\ pdb.open /\ ~pdb.fails
                               /\ pdb.syms[i].parent = 0
                               /\ pdb.syms[i].tag = TableTag(table)})

\* The plan of a query on functions of a PDB with two functions, with a
\* constraint name < 'a' only, is the full scan at the cost 2.
C19_Witness ==
    /\ table = "functions"
    /\ call.op = "best_index"
    /\ call.cons = {[col |-> "name", op |-> "<", val |-> TextValue("a")]}
    /\ call.plan = ScanPlan
    /\ call.cost = 2

\* The iterator of a full scan of the table after its first next().
FirstStep == GeneratorRowIterator_next(NewIterator(TableGenerator(table)))

\* C20: a call on one cursor (a new scan, a next() that advances or
\* exhausts it, its close) leaves every other cursor on the table as it
\* was, iterator, generator position, current record and rowid; and the
\* first next() of a new scan leaves it where the first next() of the first
\* scan of the table leaves it, whatever earlier scans did.
C20_ScansIndependent ==
    [][ /\ \A d \in CursorIds : d # call'.c => cur'[d] = cur[d]
        /\ (call'.op = "next" /\ call'.first) =>
               cur'[call'.c].it = FirstStep ]_vars

\* One cursor has been stepped to its end while the other stands on its
\* first row, and a second row is left for it.
C20_Witness ==
    /\ call.op = "next" /\ call.c = 1 /\ ~call.ret
    /\ cur[1].it.gen_.rowid >= 1
    /\ cur[2].open /\ cur[2].last_ret = "true"
    /\ cur[2].it.gen_.rowid = 0

(***************************************************************************)
(* Claims C21 to C30                                                       *)
(***************************************************************************)
\* C21: after TableRegistry's construction no operation (register_all,
\* plan selection, scans) changes a table's column list, column order or
\* filter list: every table's definition stays what the constructor made.
C21_SchemaFixed ==
    \A t \in Tables :
        /\ defs[t].columns = Columns(t)
        /\ defs[t].filters = TableRegistry(t).filters
        /\ \A f \in Filters(t) :
               defs[t].columns[defs[t].filters[f.filter_id].col_idx + 1] = f.col

\* Registered, a plan chosen through a filter, and a column of a row read.
C21_Witness ==
    /\ Len(registered) = Len(RegisterOrder)
    /\ cur[1].open /\ cur[1].plan.kind = "filter"
    /\ call.op = "column" /\ call.used_current

\* C22: run() never rejects or drops a submission: whatever the depth of
\* the queue, the enqueue step appends the job at the back, run() goes on
\* from there to wait on the future, it returns only once the promise is
\* resolved, and as long as the dispatcher exists a job that was pushed is
\* in the queue, with the worker, or executed.
C22_NeverRejected ==
    [][ /\ \A t \in Callers :
              /\ (pc[t] = "push" /\ pc'[t] = "notify") =>
                     queue_' = Append(queue_, cjob[t])
              /\ (pc[t] = "notify" /\ pc'[t] # "notify" /\ dpc # "destroyed") =>
                     pc'[t] = "get"
              /\ (pc[t] # "idle" /\ pc'[t] = "idle") =>
                     (pc[t] = "get" /\ promise[cjob[t]].state # "pending")
        /\ \A j \in pushed' :
              \/ dpc' = "destroyed"
              \/ InQueue(queue_', j)
              \/ \E w \in Workers : wjob'[w] = j
              \/ execCount'[j] >= 1 ]_vars

\* A job was pushed behind another that is still queued, and both callers
\* wait.
C22_Witness ==
    /\ Len(queue_) >= 2
    /\ \A t \in Callers : pc[t] = "get" /\ promise[cjob[t]].state = "pending"

\* The statement just prepared: an equality on column c of table t.
PreparedEq(t, c) ==
    /\ table = t
    /\ call.op \in {"best_index", "no such column"}
    /\ \E k \in call.cons : k.col = c /\ k.op = "="

\* C23: an equality on the function_id column of locals and parameters is
\* answered by constraint pushdown: the plan is the table's per-function
\* filter, not a full scan.
C23_FunctionIdPushdown ==
    \A t \in {"locals", "parameters"} :
        PreparedEq(t, "function_id") =>
            (call.op = "best_index" /\ call.plan.kind = "filter")

\* The column the tables declare for the function is func_id, and an
\* equality on it is answered by the per-function filter.
FuncIdPushdown ==
    \A t \in {"locals", "parameters"} :
        PreparedEq(t, "func_id") =>
            (call.op = "best_index" /\ call.plan.kind = "filter")

\* The routes that check the token.
Protected == {"/query", "/status", "/health", "/shutdown"}

\* The request carries the configured token in one of the two headers.
Presents(req) ==
    \/ req.x_xsql_token.has /\ get_header_value(req.x_xsql_token) = auth_token
    \/ /\ req.authorization.has
       /\ get_header_value(req.authorization) = "Bearer " \o auth_token

\* C24: with a token configured, /query, /status, /health and /shutdown
\* answer 401 to a request that does not present the token, and neither
\* enter the database nor start the stop of the server for it; / and /help
\* answer 200 whatever the request carries.
C24_TokenRequired ==
    \A h \in HandlerThreads :
        /\ (auth_token # "" /\ hreq[h].path \in Protected /\ ~Presents(hreq[h])) =>
               /\ hpc[h] \notin {"lock", "db"}
               /\ ~hres[h].queried
               /\ ~hres[h].stops
               /\ (hpc[h] = "idle" => hres[h].status = 401)
        /\ (hreq[h].path \in {"/", "/help"} /\ hpc[h] = "idle") =>
               (hres[h].status = 200 /\ ~hres[h].queried /\ ~hres[h].stops)

\* /shutdown with a wrong token was answered 401 and the server runs on.
C24_Witness ==
    /\ auth_token = "secret"
    /\ hpc["h1"] = "idle"
    /\ hreq["h1"].path = "/shutdown"
    /\ hreq["h1"].x_xsql_token = Header("", "wrong")
    /\ hres["h1"].status = 401
    /\ svr = "running"

\* C25: with a token configured, a request that carries the token in the
\* Authorization: Bearer header or in the X-XSQL-Token header is not
\* answered 401, whatever the other header contains.
C25_EitherHeaderAccepted ==
    \A h \in HandlerThreads :
        (/\ auth_token # ""
         /\ hpc[h] = "idle"
         /\ hreq[h].path \in Protected
         /\ Presents(hreq[h])) => hres[h].status # 401

\* What the handlers do accept: the token in X-XSQL-Token whatever
\* Authorization holds, and the token after "Bearer " in a request with no
\* X-XSQL-Token header.
XTokenFirst ==
    \A h \in HandlerThreads :
        (/\ auth_token # ""
         /\ hpc[h] = "idle"
         /\ hreq[h].path \in Protected
         /\ \/ hreq[h].x_xsql_token = Header("", auth_token)
            \/ /\ ~hreq[h].x_xsql_token.has
               /\ hreq[h].authorization = Header("Bearer ", auth_token))
        => hres[h].status # 401

\* C26: every database query of a handler runs with query_mutex held by
\* the handler's thread, so no two handler threads are inside the database
\* at once.
C26_QueriesUnderMutex ==
    /\ \A h \in HandlerThreads : hpc[h] = "db" => query_mutex = h
    /\ Cardinality({h \in HandlerThreads : hpc[h] = "db"}) <= 1

\* What holds of /query alone: its queries run under the mutex, one at a
\* time.
QueryRouteUnderMutex ==
    /\ \A h \in HandlerThreads :
          (hpc[h] = "db" /\ hreq[h].path = "/query") => query_mutex = h
    /\ Cardinality({h \in HandlerThreads :
                       hpc[h] = "db" /\ hreq[h].path = "/query"}) <= 1

\* C27: no job is left unserved by a race between run() and shutdown: a
\* job enqueued after stop_ was set is still resolved, and no job enters
\* the queue once the worker has exited.
C27_NoJobLeftUnserved ==
    /\ \A j \in Jobs : (j \in late) ~> Resolved(j)
    /\ [][\A t \in Callers :
            (pc[t] = "push" /\ pc'[t] = "notify") =>
                (\A w \in Workers : wpc[w] # "exited")]_vars

\* What the worker's exit test does give: a job pushed after stop_ was set
\* while the worker has not yet left its loop is resolved.
LateBeforeExitServed ==
    \A j \in Jobs :
        (j \in late /\ \A w \in Workers : wpc[w] # "exited") ~> Resolved(j)

\* C28: the worker holds the queue mutex only while waiting and popping,
\* never while it executes a statement, so a caller can take the mutex and
\* complete its enqueue step while another job's statement runs.
C28_NoLockWhileExecuting ==
    \A w \in Workers :
        /\ wpc[w] = "exec" => mutex_ # w
        /\ mutex_ = w => wpc[w] = "check"

\* While the worker executes a job, a caller whose run() began after that
\* job was pushed holds the mutex inside its enqueue step.
C28_Witness ==
    \E w \in Workers : \E t \in Callers :
        /\ wpc[w] = "exec"
        /\ pc[t] = "push" /\ mutex_ = t
        /\ wjob[w] \in enqBefore[cjob[t]]

\* C29: in every QueryResult built by execute_sql each row has exactly as
\* many values as there are column names, for any SQL text, texts of
\* several statements with result sets of different widths included.
C29_RowsMatchColumns ==
    qresult.done =>
        \A i \in 1..Len(qresult.rows) :
            Len(qresult.rows[i]) = Len(qresult.columns)

\* What holds: the rows are as wide as the columns when the statements of
\* the text all have the same width.
SameWidthRowsMatch ==
    (/\ qresult.done
     /\ \A i, j \in 1..Len(sqltext) : sqltext[i].width = sqltext[j].width)
    => \A i \in 1..Len(qresult.rows) :
           Len(qresult.rows[i]) = Len(qresult.columns)

\* C30: eof() is true exactly when no next() has been called yet or the
\* most recent next() returned false, and always for an iterator built
\* with no generator; in that state rowid() returns 0 and column() yields
\* SQL NULL without reading the generator's record.
C30_EofTracksLastNext ==
    /\ \A c \in CursorIds :
          cur[c].open =>
              /\ cur[c].it.eof_ <=> (cur[c].last_ret # "true")
              /\ ~cur[c].it.has_gen => cur[c].it.eof_
    /\ (call.op = "rowid" /\ cur[call.c].it.eof_) => call.value = IntValue(0)
    /\ (call.op = "column" /\ cur[call.c].it.eof_) =>
           (call.value = SqlNull /\ ~call.used_current)

\* rowid() is asked after a scan of two rows has ended: the generator's
\* counter stands at 1, and the iterator answers 0.
C30_Witness ==
    /\ call.op = "rowid"
    /\ cur[call.c].it.has_gen
    /\ cur[call.c].it.eof_
    /\ cur[call.c].last_ret = "false"
    /\ cur[call.c].it.gen_.rowid = 1
    /\ call.value = IntValue(0)

(***************************************************************************)
(* Sessions opened and closed in any order, DIA failing at any step.       *)
(***************************************************************************)
SessionInit ==
    DInit /\ GParked /\ RParked /\ HParked /\ EParked /\ PInit /\ CParked /\ TInit /\ IParked

SessionStep ==
    \/ \E x \in Sessions : \E pdb_path \in Paths :
           \E fails \in {0} \cup OpenSteps : Open(x, pdb_path, fails)
    \/ \E x \in Sessions : Close(x)

SessionSpec == SessionInit /\ [][SessionStep]_vars

(***************************************************************************)
(* The sections built from any contributions, in any order.                *)
(***************************************************************************)
RangesInit ==
    DInit /\ GParked /\ RParked /\ HParked /\ EParked /\ PInit /\ CInitRanges /\ TInit /\ IParked

RangesStep == Build

RangesSpec == RangesInit /\ [][RangesStep]_vars

(***************************************************************************)
(* A TablePrinter given columns and rows in any order, then printed.       *)
(***************************************************************************)
PrinterInit ==
    DInit /\ GParked /\ RParked /\ HParked /\ EParked /\ PInit /\ CParked
    /\ TInit /\ IParked

PrinterStep ==
    \/ \E cols \in SeqsUpTo(ColNames, MaxWidth) : SetColumns(cols)
    \/ \E row \in SeqsUpTo(Cells, MaxWidth) : AddRow(row)
    \/ \E n \in 0..MaxWidth :
           \E argv \in [1..n -> {"x", NullArg}] :
               \E colNames \in [1..n -> {"n", NullArg}] :
                   AddRowArgv(argv, colNames)
    \/ PrintTable

PrinterSpec == PrinterInit /\ [][PrinterStep]_vars

(***************************************************************************)
(* An interactive loop fed any lines.                                      *)
(***************************************************************************)
InteractiveInit ==
    DInit /\ GParked /\ RParked /\ HParked /\ EParked /\ PInit /\ CParked
    /\ TInit /\ IInit

InteractiveStep ==
    \/ \E line \in Lines : ReadLine(line)
    \/ EndOfInput

InteractiveSpec == InteractiveInit /\ [][InteractiveStep]_vars

(***************************************************************************)
(* Claims C31 to C35                                                       *)
(***************************************************************************)
\* The generators of the full scans of udt_members, enum_values,
\* base_classes, locals, parameters and line_numbers.
LoopClasses ==
    {"MemberGenerator", "EnumValueGenerator", "BaseClassGenerator",
     "LocalOrParamGenerator", "LineNumberGenerator"}

\* Passes enough for any loop over the records of the PDB: no more than
\* three for a record (taken as a parent, fetched as a child, its
\* enumerator found exhausted), and the pass that returns.
PassBound == 3 * Len(pdb.syms) + 3

\* C31: every call of next() of a nested generator (line_numbers,
\* udt_members, enum_values, base_classes, locals, parameters) comes to its
\* return over a finite PDB: the while (true) loop ends within PassBound
\* passes, every pass that goes round again leaves strictly less to
\* enumerate (a child fetched, an exhausted enumerator released, or the
\* next file or parent taken), parents with no children and children of the
\* other data kind included, and what the loop returns and leaves is what
\* next() returns and leaves.
C31_NestedNextTerminates ==
    (/\ iter.has_gen
     /\ iter.gen_.cls \in LoopClasses
     /\ ~DerefsNull(iter.gen_)) =>
        LET e == LoopEntry(iter.gen_)
            n == Generator_next(iter.gen_)
        IN  IF e.entered
            THEN LET r == LoopWithin(e.g, PassBound)
                 IN  /\ r.ended
                     /\ r.consumes
                     /\ r.g = n.g
                     /\ r.ret = n.ret
            ELSE n.g = e.g /\ ~n.ret

\* A scan of locals has returned a local that comes after a function with
\* no data at all and after a parameter of its own function: the call
\* passed over a parent with no children and over a child of the other
\* data kind.
C31_Witness ==
    /\ table = "locals"
    /\ phase = "scan"
    /\ ~iter.eof_
    /\ LET c == iter.gen_.current.id
           f == iter.gen_.current.owner_id
       IN  /\ c \in 1..Len(pdb.syms)
           /\ pdb.syms[c].kind = "DataIsLocal"
           /\ \E p \in 1..(c - 1) :
                  /\ pdb.syms[p].parent = f
                  /\ pdb.syms[p].kind = "DataIsParam"
           /\ \E e \in 1..(f - 1) :
                  /\ pdb.syms[e].tag = "SymTagFunction"
                  /\ \A k \in 1..Len(pdb.syms) : pdb.syms[k].parent # e
           /\ scanned = <<ReadRow(iter)>>

\* C32: is_open() is true exactly when the most recent open() returned true
\* and close() was not called since; after an open() that failed at any of
\* its steps the session reports not open and path() is empty.
C32_OpenExactlyAfterOpen ==
    \A x \in Sessions :
        /\ is_open(sess[x]) <=>
               (lastcall[x].op = "open" /\ lastcall[x].ret)
        /\ (lastcall[x].op = "open" /\ ~lastcall[x].ret) =>
               (~is_open(sess[x]) /\ path(sess[x]) = "")

\* What does hold of C32: path() is the path given to the most recent
\* open() when it returned true and close() was not called since, and empty
\* otherwise; is_open() is true after such an open(), false after close()
\* and on a new session, and false after an open() that failed before
\* get_globalScope.
SessionPathTracksOpen ==
    \A x \in Sessions :
        /\ (path(sess[x]) # "") <=>
               (lastcall[x].op = "open" /\ lastcall[x].ret)
        /\ (lastcall[x].op = "open" /\ lastcall[x].ret) => is_open(sess[x])
        /\ lastcall[x].op \in {"none", "close"} => ~is_open(sess[x])
        /\ (lastcall[x].op = "open" /\ lastcall[x].fails \in 1..3) =>
               ~is_open(sess[x])

\* The contributions of the section numbered n.
ContribsOf(n) == {i \in 1..Len(contribs) : contribs[i].sec_num = n}

\* C33: for every section number, the row of sections covers all of that
\* section's contributions: rva is the smallest contribution RVA and
\* rva + length the largest contribution end, whatever the order of the
\* contributions.
C33_RangeCoversContributions ==
    built =>
        \A r \in 1..Len(sections_) :
            LET row == sections_[r]
                mine == ContribsOf(row.section_number)
            IN  /\ mine # {}
                /\ \E i \in mine : contribs[i].rva = row.rva
                /\ \A i \in mine : row.rva <= contribs[i].rva
                /\ \E i \in mine :
                       contribs[i].rva + contribs[i].len = row.rva + row.length
                /\ \A i \in mine :
                       contribs[i].rva + contribs[i].len <= row.rva + row.length

\* What does hold of C33: there is one row for each section number that has
\* a contribution, in ascending section number; its rva is that of the
\* section's first contribution in the order of enumeration, and
\* rva + length is the largest contribution end; so the range is the
\* covering one when no contribution of a section starts below the first.
SectionRangeFromFirst ==
    built =>
        /\ {sections_[r].section_number : r \in 1..Len(sections_)} =
               {contribs[i].sec_num : i \in 1..Len(contribs)}
        /\ \A r \in 1..Len(sections_) :
               LET row == sections_[r]
                   mine == ContribsOf(row.section_number)
                   first == CHOOSE i \in mine : \A j \in mine : i <= j
               IN  /\ \A q \in 1..(r - 1) :
                          sections_[q].section_number < row.section_number
                   /\ row.rva = contribs[first].rva
                   /\ \E i \in mine :
                          contribs[i].rva + contribs[i].len =
                              row.rva + row.length
                   /\ \A i \in mine :
                          contribs[i].rva + contribs[i].len <=
                              row.rva + row.length

\* C34: TablePrinter never indexes widths outside its bounds: after any
\* set_columns and add_row calls, and after print(), every stored row of a
\* printer that has columns has at most as many cells as there are widths.
C34_WidthsInBounds ==
    /\ ~oob
    /\ printer.columns # <<>> =>
           \A r \in 1..Len(printer.rows) :
               Len(printer.rows[r]) <= Len(printer.widths)

\* What does hold of C34: there are as many widths as columns, and every
\* width is at least the length of its column's name.
WidthsMatchColumns ==
    /\ Len(printer.widths) = Len(printer.columns)
    /\ \A i \in 1..Len(printer.widths) :
           printer.widths[i] >= Len(printer.columns[i])

\* The last non-blank character of the line is ';'.
EndsStatement(line) ==
    \E i \in 1..Len(line) :
        /\ line[i] = ";"
        /\ \A j \in (i + 1)..Len(line) : line[j] \in Blanks

\* The last pass read a line.
LineRead == event.kind \notin {"none", "eof"}

\* The line was taken as a dot-command.
TakenAsCommand == event.kind \in {"quit", "command", "unknown"}

\* C35, as stated: in interactive mode, local and remote, the lines are
\* accumulated into one statement, which is executed exactly when a line
\* whose last non-blank character is ';' is entered, after which the buffer
\* is empty; dot-commands are recognised only while the buffer is empty;
\* what is executed is the whole buffer with the line that ends it.
C35_ExecutedExactlyOnSemicolon ==
    /\ LineRead =>
           (event.kind = "execute" <=> EndsStatement(event.line))
    /\ event.kind = "execute" =>
           /\ event.text = event.before \o event.line \o <<" ">>
           /\ stmt = <<>>
    /\ TakenAsCommand => event.before = <<>>

\* C35, amended: a line is taken as a dot-command exactly when the buffer
\* is empty and the line starts with '.', whatever it ends with, and then
\* the buffer stays empty and nothing of it is executed; every other
\* non-empty line is appended to the buffer, which is executed exactly when
\* the last non-blank character of that line is ';', as the whole buffer
\* with the line, after which the buffer is empty; an empty line and the
\* end of the input leave the buffer as it is and execute nothing.
C35_ExecutedOnSemicolon ==
    /\ LineRead =>
           (TakenAsCommand <=>
               /\ event.before = <<>>
               /\ event.line # <<>>
               /\ event.line[1] = ".")
    /\ (LineRead /\ ~TakenAsCommand /\ event.line # <<>>) =>
           /\ event.kind = "execute" <=> EndsStatement(event.line)
           /\ event.kind = "accumulate" <=> ~EndsStatement(event.line)
    /\ event.kind = "execute" =>
           /\ event.text = event.before \o event.line \o <<" ">>
           /\ stmt = <<>>
    /\ event.kind = "accumulate" =>
           /\ stmt = event.before \o event.line \o <<" ">>
           /\ event.text = <<>>
    /\ TakenAsCommand => stmt = <<>>
    /\ event.kind \in {"eof", "skip", "quit", "unknown"} =>
           event.text = <<>> /\ stmt = event.before
    /\ event.kind = "skip" <=> (LineRead /\ event.line = <<>>)
    /\ event.kind = "command" => event.text = SchemaQuery

\* A statement of two lines was executed: the first line was kept in the
\* buffer; the second one starts with a dot, which is no command since the
\* buffer was not empty, and ends with ';'.
C35_Witness ==
    /\ event.kind = "execute"
    /\ event.before = <<"a", " ">>
    /\ event.line = <<".", ";">>
    /\ stmt = <<>>

====
